---- MODULE Spec2Model ----
(***************************************************************************)
(* Reflex proxy protocol: frame codec, handshake and key agreement, and    *)
(* the inbound / outbound session handlers with the fallback path.         *)
(*                                                                         *)
(* Bytes are integers 0..255 and byte strings are sequences of bytes.      *)
(* The external primitives (X25519, HKDF-SHA256, ChaCha20-Poly1305) are    *)
(* modelled by small computable functions with the algebra the callers     *)
(* rely on: Diffie-Hellman commutes, HKDF is a function of (ikm, salt),    *)
(* the AEAD tag is a function of (key, nonce, ciphertext) that differs     *)
(* whenever one of them differs.                                           *)
(***************************************************************************)
EXTENDS Integers, Sequences, FiniteSets, TLC

VARIABLES
    encoder,    \* codec: the FrameEncoder under test
    decoder,    \* codec: the FrameDecoder under test
    emitted,    \* codec: what the encoder produced, in order
    results,    \* codec: what Decode returned for emitted[1], emitted[2], ...
    sync,       \* codec: the decoder was only ever given emitted frames in order
    lastCall,   \* codec: the last Decode call on a replayed or altered frame
    client,     \* connection: the raw client (what it still sends, whether it closes)
    c2s,        \* connection: the bytes that reached the server's socket
    s2c,        \* connection: the bytes written to the client's socket
    ib,         \* connection: the inbound handler (Handler.Process and its callees)
    ob,         \* connection: the outbound handler when it is the client
    validator,  \* the inbound handler's Validator map
    fallbacks,  \* the inbound handler's fallback table
    backend,    \* the fallback back-end as seen through the dialled connection
    link,       \* the dispatcher and the link it returned
    events,     \* the steps the inbound handler has passed, in order
    reflected,  \* TRUE once the network has sent a frame back to its sender
    tsNow,      \* timestamp: time.Now().Unix() at the call of ValidateTimestamp
    tsArg,      \* timestamp: the argument of the call
    tsResult,   \* timestamp: what the call returned ("none" before the call)
    relay,      \* relay loop: decoder, frames sent, unread bytes, link writes, outcome
    morph,      \* morphing: one WriteFrameWithMorphing call and its receiver
    reg,        \* validator: one Validator, its lock and the calls on it
    lookup,     \* fallback lookup: a table built by New, a request, the answer
    call,       \* one call of a function of the codec: its arguments and what it returned
    conc        \* goroutines sharing one FrameEncoder and one FrameDecoder

codecVars == <<encoder, decoder, emitted, results, sync, lastCall>>

connVars == <<client, c2s, s2c, ib, ob, validator, fallbacks, backend, link, events,
              reflected>>

tsVars == <<tsNow, tsArg, tsResult>>

moreVars == <<morph, reg, lookup, call, conc>>

auxVars == <<tsVars, relay, moreVars>>

vars == <<encoder, decoder, emitted, results, sync, lastCall, client, c2s, s2c, ib, ob,
          validator, fallbacks, backend, link, events, reflected, tsNow, tsArg, tsResult,
          relay, morph, reg, lookup, call, conc>>

\* ------------------------------------------------------------------------
\* Bounds of the model
\* ------------------------------------------------------------------------
MaxFrames == 2
MaxPayloadLen == 2
MaxDecodes == 4
MaxLinkData == 1
TsSpan == 122
MaxRelayFrames == 3
MaxMorphLen == 1501
MaxProcs == 3
MaxRegCalls == 3
MaxFallbackEntries == 3
MaxEncodeLen == 65520
MaxDomainLen == 3
MaxHeaderCut == 21

\* ------------------------------------------------------------------------
\* Program constants
\* ------------------------------------------------------------------------
FrameTypeData == 1
FrameTypePadding == 2
FrameTypeTiming == 3
FrameTypeClose == 4
MaxFramePayloadSize == 16384
TagSize == 16
KeySize == 32
ByteMod == 256
Uint16Mod == 65536

\* ------------------------------------------------------------------------
\* Byte-string helpers
\* ------------------------------------------------------------------------
Rep(b, n) == [i \in 1..n |-> b]

Min(a, b) == IF a < b THEN a ELSE b

Take(s, n) == SubSeq(s, 1, Min(n, Len(s)))

Drop(s, n) == SubSeq(s, n + 1, Len(s))

IsPrefix(p, s) == Len(p) <= Len(s) /\ SubSeq(s, 1, Len(p)) = p

\* binary.BigEndian.PutUint16 / Uint16
PutUint16BE(n) == <<(n \div ByteMod) % ByteMod, n % ByteMod>>

Uint16BE(b) == b[1] * ByteMod + b[2]

RECURSIVE Pow2(_)
Pow2(n) == IF n = 0 THEN 1 ELSE 2 * Pow2(n - 1)

\* v with bit b (0..7) inverted
FlipBit(v, b) == IF (v \div Pow2(b)) % 2 = 1 THEN v - Pow2(b) ELSE v + Pow2(b)

\* s with bit b of its byte at position pos inverted
FlipAt(s, pos, b) == [s EXCEPT ![pos] = FlipBit(s[pos], b)]

\* ------------------------------------------------------------------------
\* ChaCha20-Poly1305 (golang.org/x/crypto) as used by the frame codec.
\* The nonce is the 64-bit counter, little endian, followed by four zero
\* bytes, so the nonce is determined by the counter.
\* ------------------------------------------------------------------------
KeyStream(key, ctr, i) == (key[1] * 31 + key[2] * 5 + ctr * 17 + i * 7) % ByteMod

\* the sum mod 256 of the n bytes ct[i], ct[i + 12], ct[i + 24], ...
RECURSIVE SumStride(_, _, _)
SumStride(ct, i, n) ==
    IF n = 0 THEN 0
    ELSE IF n = 1 THEN ct[i] % ByteMod
    ELSE LET h == n \div 2
         IN  (SumStride(ct, i, h) + SumStride(ct, i + (TagSize - 4) * h, n - h)) % ByteMod

\* the sum mod 256 of every 12th byte of ct from position i on
SumAt(ct, i) ==
    IF i > Len(ct) THEN 0
    ELSE SumStride(ct, i, (Len(ct) - i) \div (TagSize - 4) + 1)

\* the 16-byte authentication tag over (key, nonce, ciphertext)
Tag(key, ctr, ct) ==
    <<key[1], key[2], ctr % ByteMod, Len(ct) % ByteMod>> \o
    [j \in 1..(TagSize - 4) |-> SumAt(ct, j)]

\* aead.Seal(dst[:0], nonce, plaintext, nil)
Seal(key, ctr, pt) ==
    LET ct == [i \in 1..Len(pt) |-> (pt[i] + KeyStream(key, ctr, i)) % ByteMod]
    IN  ct \o Tag(key, ctr, ct)

\* (variant) the ciphertext is decrypted without verifying the tag
OpenUnverified(key, ctr, c) ==
    IF Len(c) < TagSize THEN [ok |-> FALSE, pt |-> <<>>]
    ELSE LET ct == SubSeq(c, 1, Len(c) - TagSize)
         IN  [ok |-> TRUE,
              pt |-> [i \in 1..Len(ct) |->
                        (ct[i] + ByteMod - KeyStream(key, ctr, i)) % ByteMod]]

\* aead.Open(dst[:0], nonce, ciphertext, nil): ok is FALSE on authentication
\* failure and then no plaintext is produced
Open(key, ctr, c) ==
    IF Len(c) < TagSize THEN [ok |-> FALSE, pt |-> <<>>]
    ELSE LET ct == SubSeq(c, 1, Len(c) - TagSize)
             tg == SubSeq(c, Len(c) - TagSize + 1, Len(c))
         IN  IF tg = Tag(key, ctr, ct)
             THEN [ok |-> TRUE,
                   pt |-> [i \in 1..Len(ct) |->
                             (ct[i] + ByteMod - KeyStream(key, ctr, i)) % ByteMod]]
             ELSE [ok |-> FALSE, pt |-> <<>>]

\* ------------------------------------------------------------------------
\* Frame codec (encoding/frame.go)
\* ------------------------------------------------------------------------
NoFrame == [type |-> -1, payload |-> <<>>]

Frame(t, p) == [type |-> t, payload |-> p]

NoCall == [kind |-> "none", err |-> "", frame |-> NoFrame]

\* NewFrameEncoder / NewFrameDecoder
NewFrameEncoder(sessionKey) == [key |-> sessionKey, counter |-> 0]

NewFrameDecoder(sessionKey) == [key |-> sessionKey, counter |-> 0]

\* (variant) the counter is advanced by the first call only
EncNextCounterStuck(e) == IF e.counter = 0 THEN 1 ELSE e.counter

\* the counter value an encoder call seals with
EncNextCounter(e) == e.counter + 1

\* FrameEncoder.Encode: the encoder after the call and the bytes returned
Encode(e, frame) ==
    LET ctr        == EncNextCounter(e)
        plaintext  == <<frame.type>> \o frame.payload
        ciphertext == Seal(e.key, ctr, plaintext)
    IN  [enc   |-> [e EXCEPT !.counter = ctr],
         ctr   |-> ctr,
         bytes |-> PutUint16BE(Len(ciphertext) % Uint16Mod) \o ciphertext]

\* FrameEncoder.EncodeToWriter: same sealing, the bytes go to the writer
EncodeToWriter(e, frame) ==
    LET ctr        == EncNextCounter(e)
        plaintext  == <<frame.type>> \o frame.payload
        ciphertext == Seal(e.key, ctr, plaintext)
    IN  [enc   |-> [e EXCEPT !.counter = ctr],
         ctr   |-> ctr,
         bytes |-> PutUint16BE(Len(ciphertext) % Uint16Mod) \o ciphertext]

\* FrameEncoder.WriteFrame
WriteFrame(e, frame) == EncodeToWriter(e, frame)

\* (variant) the counter is advanced by the first call only
DecNextCounterStuck(d) == IF d.counter = 0 THEN 1 ELSE d.counter

\* the counter value a decoder call opens with
DecNextCounter(d) == d.counter + 1

\* (variant) the payload is taken from the whole plaintext, type byte included
DecodeOpenedKeepType(o) ==
    IF ~o.ok THEN [err |-> "decryption failed", frame |-> NoFrame]
    ELSE IF Len(o.pt) < 1 THEN [err |-> "invalid plaintext", frame |-> NoFrame]
    ELSE [err |-> "", frame |-> Frame(o.pt[1], o.pt)]

\* what Decode returns once the ciphertext has been opened
DecodeOpened(o) ==
    IF ~o.ok THEN [err |-> "decryption failed", frame |-> NoFrame]
    ELSE IF Len(o.pt) < 1 THEN [err |-> "invalid plaintext", frame |-> NoFrame]
    ELSE [err |-> "", frame |-> Frame(o.pt[1], Drop(o.pt, 1))]

\* FrameDecoder.Decode: the decoder after the call, the error ("" for nil)
\* and the frame.  2+length is computed in 16 bits; a slice whose end lies
\* before its start faults ("panic").
Decode(d, data) ==
    IF Len(data) < 2
    THEN [dec |-> d, err |-> "frame too short", frame |-> NoFrame]
    ELSE LET length == Uint16BE(data)
             end    == (2 + length) % Uint16Mod
         IN  IF Len(data) < end
             THEN [dec |-> d, err |-> "incomplete frame", frame |-> NoFrame]
             ELSE IF end < 2
             THEN [dec |-> d, err |-> "panic", frame |-> NoFrame]
             ELSE LET ciphertext == SubSeq(data, 3, end)
                      ctr        == DecNextCounter(d)
                      r          == DecodeOpened(Open(d.key, ctr, ciphertext))
                  IN  [dec |-> [d EXCEPT !.counter = ctr],
                       err |-> r.err, frame |-> r.frame]

\* ------------------------------------------------------------------------
\* Crypto primitives and handshake codec (encoding/handshake.go).
\* A 32-byte X25519 value carries its information in its first byte; the
\* group is the multiplicative group modulo DhPrime with generator DhBase.
\* ------------------------------------------------------------------------
DhPrime == 23
DhBase == 5
ClientHandshakeSize == 76
ServerHandshakeSize == 40
TimestampWindow == 120

\* 0x52 0x46 0x58 0x4C
ReflexMagic == <<82, 70, 88, 76>>

RECURSIVE PowMod(_, _, _)
PowMod(b, e, m) == IF e = 0 THEN 1 % m ELSE (b * PowMod(b, e - 1, m)) % m

Bytes32(v) == <<v>> \o Rep(0, KeySize - 1)

\* curve25519.ScalarBaseMult: the public key of a private key
ScalarBaseMult(privateKey) == Bytes32(PowMod(DhBase, privateKey[1], DhPrime))

\* DeriveSharedKey: curve25519.ScalarMult(&shared, &privateKey, &peerPublicKey)
DeriveSharedKey(privateKey, peerPublicKey) ==
    Bytes32(PowMod(peerPublicKey[1] % DhPrime, privateKey[1], DhPrime))

SaltNum(salt) == IF salt = "reflex-session-v1" THEN 17 ELSE 99

\* DeriveSessionKey: HKDF-SHA256(ikm = sharedKey, salt, info = "reflex-session-v1")
DeriveSessionKey(sharedKey, salt) ==
    <<(sharedKey[1] + 1) % ByteMod, SaltNum(salt)>> \o Rep(0, KeySize - 2)

\* An int64 is held as the four 16-bit limbs of its two's complement image,
\* most significant first; arithmetic on it wraps modulo 2^64 as Go's does.
\* Int64(n) is the int64 of a model integer n with |n| < 2^30.
Int64(n) ==
    IF n >= 0 THEN <<0, 0, n \div Uint16Mod, n % Uint16Mod>>
    ELSE <<65535, 65535, 49152 + ((n + 1073741824) \div Uint16Mod),
           (n + 1073741824) % Uint16Mod>>

\* a - b on limb sequences of equal length, wrapping at the top limb
RECURSIVE SubLimbs(_, _, _)
SubLimbs(a, b, borrow) ==
    IF a = <<>> THEN <<>>
    ELSE LET n == Len(a)
             x == a[n] - b[n] - borrow
         IN  SubLimbs(SubSeq(a, 1, n - 1), SubSeq(b, 1, n - 1), IF x < 0 THEN 1 ELSE 0)
             \o <<IF x < 0 THEN x + Uint16Mod ELSE x>>

\* int64 subtraction, negation and addition
Sub64(a, b) == SubLimbs(a, b, 0)

Neg64(a) == Sub64(<<0, 0, 0, 0>>, a)

Add64(a, b) == Sub64(a, Neg64(b))

\* the sign bit
IsNeg64(a) == a[1] >= 32768

\* a <= k as int64, for 0 <= k < 2^16
LeqSmall64(a, k) == IsNeg64(a) \/ (a[1] = 0 /\ a[2] = 0 /\ a[3] = 0 /\ a[4] <= k)

\* binary.BigEndian.PutUint64(buf, uint64(ts))
PutInt64BE(ts) ==
    <<ts[1] \div ByteMod, ts[1] % ByteMod, ts[2] \div ByteMod, ts[2] % ByteMod,
      ts[3] \div ByteMod, ts[3] % ByteMod, ts[4] \div ByteMod, ts[4] % ByteMod>>

\* int64(binary.BigEndian.Uint64(b))
Int64BE(b) ==
    <<b[1] * ByteMod + b[2], b[3] * ByteMod + b[4],
      b[5] * ByteMod + b[6], b[7] * ByteMod + b[8]>>

ClientHandshake(pub, uid, ts, nonce) ==
    [PublicKey |-> pub, UserID |-> uid, Timestamp |-> ts, Nonce |-> nonce]

ServerHandshake(pub, ts) == [PublicKey |-> pub, Timestamp |-> ts]

\* EncodeClientHandshake: magic(4) pub(32) user_id(16) timestamp(8) nonce(16)
EncodeClientHandshake(hs) ==
    ReflexMagic \o hs.PublicKey \o hs.UserID \o PutInt64BE(hs.Timestamp) \o hs.Nonce

\* a variant that looks at the magic before the length
DecodeClientHandshakeMagicFirst(data) ==
    IF Len(data) >= 4 /\ SubSeq(data, 1, 4) # ReflexMagic
    THEN [err |-> "invalid magic number", hs |-> ClientHandshake(<<>>, <<>>, Int64(0), <<>>)]
    ELSE IF Len(data) < ClientHandshakeSize
    THEN [err |-> "handshake packet too short", hs |-> ClientHandshake(<<>>, <<>>, Int64(0), <<>>)]
    ELSE [err |-> "",
          hs  |-> ClientHandshake(SubSeq(data, 5, 36), SubSeq(data, 37, 52),
                                  Int64BE(SubSeq(data, 53, 60)), SubSeq(data, 61, 76))]

\* DecodeClientHandshake: the error ("" for nil) and the record
DecodeClientHandshake(data) ==
    IF Len(data) < ClientHandshakeSize
    THEN [err |-> "handshake packet too short", hs |-> ClientHandshake(<<>>, <<>>, Int64(0), <<>>)]
    ELSE IF SubSeq(data, 1, 4) # ReflexMagic
    THEN [err |-> "invalid magic number", hs |-> ClientHandshake(<<>>, <<>>, Int64(0), <<>>)]
    ELSE [err |-> "",
          hs  |-> ClientHandshake(SubSeq(data, 5, 36), SubSeq(data, 37, 52),
                                  Int64BE(SubSeq(data, 53, 60)), SubSeq(data, 61, 76))]

\* EncodeServerHandshake: pub(32) timestamp(8)
EncodeServerHandshake(hs) == hs.PublicKey \o PutInt64BE(hs.Timestamp)

\* DecodeServerHandshake
DecodeServerHandshake(data) ==
    IF Len(data) < ServerHandshakeSize
    THEN [err |-> "handshake response too short", hs |-> ServerHandshake(<<>>, Int64(0))]
    ELSE [err |-> "",
          hs  |-> ServerHandshake(SubSeq(data, 1, 32), Int64BE(SubSeq(data, 33, 40)))]

\* ValidateTimestamp, with time.Now().Unix() = now: int64 arithmetic
ValidateTimestamp(timestamp, now) ==
    LET diff == Sub64(now, timestamp)
    IN  LeqSmall64(IF IsNeg64(diff) THEN Neg64(diff) ELSE diff, TimestampWindow)

\* ------------------------------------------------------------------------
\* Request header (outbound encodeRequestHeader, inbound parseRequestHeader)
\* ------------------------------------------------------------------------
RequestCommandTCP == 1
RequestCommandUDP == 2

NoAddress == [family |-> "none", bytes |-> <<>>]

\* encodeRequestHeader: command(1) port(2) addrType(1) address
encodeRequestHeader(request) ==
    <<request.Command, (request.Port \div ByteMod) % ByteMod, request.Port % ByteMod>> \o
    (CASE request.Address.family = "ipv4" -> <<1>> \o request.Address.bytes
       [] request.Address.family = "ipv6" -> <<4>> \o request.Address.bytes
       [] request.Address.family = "domain" ->
              <<3, Len(request.Address.bytes) % ByteMod>> \o request.Address.bytes
       [] OTHER -> <<>>)

\* parseRequestHeader: the error ("" for nil) and the request; the address is
\* parsed only when the payload has at least 7 bytes
parseRequestHeader(payload) ==
    LET bad(e) == [err |-> e, Command |-> 0, Port |-> 0, Address |-> NoAddress]
        ok(a)  == [err |-> "", Command |-> payload[1],
                   Port |-> payload[2] * ByteMod + payload[3], Address |-> a]
    IN  IF Len(payload) < 4 THEN bad("payload too short")
        ELSE IF Len(payload) < 7 THEN ok(NoAddress)
        ELSE CASE payload[4] = 1 ->
                    IF Len(payload) < 8 THEN bad("invalid IPv4 address")
                    ELSE ok([family |-> "ipv4", bytes |-> SubSeq(payload, 5, 8)])
               [] payload[4] = 3 ->
                    IF Len(payload) < 5 THEN bad("invalid domain address")
                    ELSE IF Len(payload) < 5 + payload[5] THEN bad("incomplete domain address")
                    ELSE ok([family |-> "domain", bytes |-> SubSeq(payload, 6, 5 + payload[5])])
               [] payload[4] = 4 ->
                    IF Len(payload) < 20 THEN bad("invalid IPv6 address")
                    ELSE ok([family |-> "ipv6", bytes |-> SubSeq(payload, 5, 20)])
               [] OTHER -> bad("unknown address type")

\* ------------------------------------------------------------------------
\* Fallback demultiplexer (inbound/conn.go).  Strings are byte strings; the
\* ALPN tags are the three strings the code can produce.
\* ------------------------------------------------------------------------
PeekSize == 76
FallbackPeekSize == 1024

\* "GET ", "POST", "PUT ", "HEAD", "DELE", "OPTI", "PATC", "TRAC", "CONN"
HTTPMethods ==
    {<<71, 69, 84, 32>>, <<80, 79, 83, 84>>, <<80, 85, 84, 32>>, <<72, 69, 65, 68>>,
     <<68, 69, 76, 69>>, <<79, 80, 84, 73>>, <<80, 65, 84, 67>>, <<84, 82, 65, 67>>,
     <<67, 79, 78, 78>>}

\* isHTTPRequest
isHTTPRequest(data) ==
    IF Len(data) < 4 THEN FALSE
    ELSE \E m \in HTTPMethods : IsPrefix(m, data)

\* isTLSHandshake
isTLSHandshake(data) ==
    IF Len(data) < 5 THEN FALSE
    ELSE IF data[1] # 22 THEN FALSE
    ELSE IF data[2] < 3 THEN FALSE
    ELSE TRUE

\* data[i] of the source (0-based)
At(data, i) == data[i + 1]

\* data[a:b] of the source (0-based, end exclusive)
Slice(data, a, b) == SubSeq(data, a + 1, b)

\* the extension walk of extractSNI, from position pos up to endPos
RECURSIVE SNIWalk(_, _, _)
SNIWalk(data, pos, endPos) ==
    IF ~(pos + 4 <= endPos /\ pos + 4 <= Len(data)) THEN <<>>
    ELSE LET extType == At(data, pos) * ByteMod + At(data, pos + 1)
             extLen  == At(data, pos + 2) * ByteMod + At(data, pos + 3)
             p       == pos + 4
         IN  IF extType = 0
             THEN IF p + extLen > Len(data) THEN <<>>
                  ELSE IF p + 2 > Len(data) THEN <<>>
                  ELSE IF p + 2 >= Len(data) \/ At(data, p + 2) # 0 THEN <<>>
                  ELSE IF p + 5 > Len(data) THEN <<>>
                  ELSE LET sniLen == At(data, p + 3) * ByteMod + At(data, p + 4)
                       IN  IF p + 5 + sniLen > Len(data) THEN <<>>
                           ELSE Slice(data, p + 5, p + 5 + sniLen)
             ELSE SNIWalk(data, p + extLen, endPos)

\* extractSNI
extractSNI(data) ==
    IF Len(data) < 43 THEN <<>>
    ELSE IF 43 >= Len(data) THEN <<>>
    ELSE LET p1 == 43 + 1 + At(data, 43)
         IN  IF p1 + 2 > Len(data) THEN <<>>
             ELSE LET p2 == p1 + 2 + (At(data, p1) * ByteMod + At(data, p1 + 1))
                  IN  IF p2 + 1 > Len(data) THEN <<>>
                      ELSE LET p3 == p2 + 1 + At(data, p2)
                           IN  IF p3 + 2 > Len(data) THEN <<>>
                               ELSE SNIWalk(data, p3 + 2,
                                            p3 + 2 + At(data, p3) * ByteMod + At(data, p3 + 1))

\* extractALPN: a stub that finds nothing
extractALPN(data) == ""

\* bytes.ToLower on ASCII
ToLower(s) == [i \in 1..Len(s) |-> IF s[i] >= 65 /\ s[i] <= 90 THEN s[i] + 32 ELSE s[i]]

IsSpace(b) == b \in {9, 10, 11, 12, 13, 32}

\* bytes.TrimSpace
RECURSIVE TrimLeft(_)
TrimLeft(s) == IF s # <<>> /\ IsSpace(s[1]) THEN TrimLeft(Tail(s)) ELSE s

RECURSIVE TrimRight(_)
TrimRight(s) ==
    IF s # <<>> /\ IsSpace(s[Len(s)]) THEN TrimRight(SubSeq(s, 1, Len(s) - 1)) ELSE s

TrimSpace(s) == TrimRight(TrimLeft(s))

\* the first position >= from at which sep occurs in s, 0 if none
RECURSIVE IndexFrom(_, _, _)
IndexFrom(s, sep, from) ==
    IF from + Len(sep) - 1 > Len(s) THEN 0
    ELSE IF SubSeq(s, from, from + Len(sep) - 1) = sep THEN from
    ELSE IndexFrom(s, sep, from + 1)

\* the Host header: the first line of bytes.Split(data, "\r\n") that starts
\* with "host:" in any case
RECURSIVE HostFrom(_, _)
HostFrom(data, from) ==
    LET nl   == IndexFrom(data, <<13, 10>>, from)
        line == IF nl = 0 THEN SubSeq(data, from, Len(data)) ELSE SubSeq(data, from, nl - 1)
    IN  IF IsPrefix(<<104, 111, 115, 116, 58>>, ToLower(line))
        THEN TrimSpace(Drop(line, 5))
        ELSE IF nl = 0 THEN <<>> ELSE HostFrom(data, nl + 2)

\* extractHTTPHost
extractHTTPHost(data) == HostFrom(data, 1)

\* extractHTTPPath: the second field of bytes.SplitN(data, " ", 3), else "/"
extractHTTPPath(data) ==
    LET s1 == IndexFrom(data, <<32>>, 1)
    IN  IF s1 = 0 THEN <<47>>
        ELSE LET s2 == IndexFrom(data, <<32>>, s1 + 1)
             IN  IF s2 = 0 THEN SubSeq(data, s1 + 1, Len(data))
                 ELSE SubSeq(data, s1 + 1, s2 - 1)

\* what handleFallback extracts from the peeked bytes
Classify(peeked) ==
    IF isTLSHandshake(peeked)
    THEN [kind |-> "tls", name |-> extractSNI(peeked),
          alpn |-> IF extractALPN(peeked) = "" THEN "tls" ELSE extractALPN(peeked),
          path |-> <<>>]
    ELSE IF isHTTPRequest(peeked)
    THEN [kind |-> "http", name |-> extractHTTPHost(peeked), alpn |-> "http/1.1",
          path |-> extractHTTPPath(peeked)]
    ELSE [kind |-> "unknown", name |-> <<>>, alpn |-> "", path |-> <<>>]

NoFallback == [Name |-> <<>>, Alpn |-> "", Path |-> <<>>, Dest |-> <<>>]

\* New: the table built from config.Fallbacks, a later entry replacing an
\* earlier one with the same (name, alpn, path)
RECURSIVE BuildFallbacks(_)
BuildFallbacks(cfg) ==
    IF cfg = <<>> THEN << >>
    ELSE LET rest == BuildFallbacks(SubSeq(cfg, 1, Len(cfg) - 1))
             fb   == cfg[Len(cfg)]
             key  == <<fb.Name, fb.Alpn, fb.Path>>
         IN  [k \in DOMAIN rest \cup {key} |-> IF k = key THEN fb ELSE rest[k]]

HasName(t, name) == \E k \in DOMAIN t : k[1] = name

HasAlpn(t, name, alpn) == \E k \in DOMAIN t : k[1] = name /\ k[2] = alpn

\* the lookups of findFallback under one name
FindUnderName(t, name, alpn, path) ==
    IF ~HasName(t, name) THEN NoFallback
    ELSE IF HasAlpn(t, name, alpn) /\ <<name, alpn, path>> \in DOMAIN t
    THEN t[<<name, alpn, path>>]
    ELSE IF HasAlpn(t, name, alpn) /\ <<name, alpn, <<>>>> \in DOMAIN t
    THEN t[<<name, alpn, <<>>>>]
    ELSE IF HasAlpn(t, name, "") /\ <<name, "", path>> \in DOMAIN t
    THEN t[<<name, "", path>>]
    ELSE IF HasAlpn(t, name, "") /\ <<name, "", <<>>>> \in DOMAIN t
    THEN t[<<name, "", <<>>>>]
    ELSE NoFallback

\* (variant) the default name is not tried
findFallbackNameOnly(t, name, alpn, path) ==
    IF DOMAIN t = {} THEN NoFallback
    ELSE FindUnderName(t, name, alpn, path)

\* findFallback: NoFallback stands for nil
findFallback(t, name, alpn, path) ==
    IF DOMAIN t = {} THEN NoFallback
    ELSE IF FindUnderName(t, name, alpn, path) # NoFallback
    THEN FindUnderName(t, name, alpn, path)
    ELSE FindUnderName(t, <<>>, alpn, path)

IsDigits(s) == \A i \in 1..Len(s) : s[i] >= 48 /\ s[i] <= 57

\* strconv.Atoi succeeds
AtoiOk(s) ==
    LET body == IF s # <<>> /\ s[1] \in {43, 45} THEN Tail(s) ELSE s
    IN  body # <<>> /\ IsDigits(body) /\ Len(body) <= 18

\* "127.0.0.1:"
Localhost == <<49, 50, 55, 46, 48, 46, 48, 46, 49, 58>>

\* the address handleFallback dials for fb.Dest
DialAddress(dest) ==
    LET first == IF \E i \in 1..Len(dest) : dest[i] = 58 THEN dest ELSE Localhost \o dest
    IN  IF AtoiOk(dest) THEN Localhost \o dest ELSE first

\* ------------------------------------------------------------------------
\* One accepted connection: the inbound handler, its client (a raw byte
\* source or the outbound handler), the fallback back-end, the dispatcher.
\* ------------------------------------------------------------------------
\* time.Now().Unix() on both hosts during the connection
Now == 1000

Uid(n) == <<n>> \o Rep(0, 15)

ZeroNonce == Rep(0, 16)

PrivKey(n) == Bytes32(n)

NoCodec == [key |-> <<>>, counter |-> 0]

IbIdle ==
    [pc |-> "idle", rpos |-> 0, deadline |-> FALSE, err |-> "", authFailed |-> FALSE,
     hsData |-> <<>>, key |-> <<>>, enc |-> NoCodec, dec |-> NoCodec,
     first |-> NoFrame, wrote |-> <<>>, sent |-> <<>>, accepted |-> <<>>,
     up |-> "idle", down |-> "idle", firstOut |-> <<>>]

ObIdle ==
    [pc |-> "idle", rpos |-> 0, err |-> "", priv |-> <<>>, hsData |-> <<>>,
     resp |-> <<>>, key |-> <<>>, enc |-> NoCodec, dec |-> NoCodec,
     sent |-> <<>>, accepted |-> <<>>, toSend |-> 0, recv |-> <<>>,
     uid |-> <<>>, target |-> parseRequestHeader(<<>>), up |-> "idle", down |-> "idle"]

ClientIdle == [kind |-> "idle", script |-> <<>>, willClose |-> FALSE, closed |-> FALSE]

BackendIdle ==
    [up |-> FALSE, dialed |-> FALSE, addr |-> <<>>, class |-> Classify(<<>>),
     recv |-> <<>>, replied |-> FALSE]

LinkIdle == [dispatched |-> 0, request |-> parseRequestHeader(<<>>), up |-> <<>>, down |-> 0]

CodecIdle ==
    /\ encoder = NoCodec
    /\ decoder = NoCodec
    /\ emitted = <<>>
    /\ results = <<>>
    /\ sync = TRUE
    /\ lastCall = NoCall

ConnIdle ==
    /\ client = ClientIdle
    /\ c2s = <<>>
    /\ s2c = <<>>
    /\ ib = IbIdle
    /\ ob = ObIdle
    /\ validator = << >>
    /\ fallbacks = << >>
    /\ backend = BackendIdle
    /\ link = LinkIdle
    /\ events = <<>>
    /\ reflected = FALSE

TsIdle ==
    /\ tsNow = <<>>
    /\ tsArg = <<>>
    /\ tsResult = "none"

RelayIdle == relay = [state |-> "idle"]

MorphIdle == morph = [state |-> "idle"]

RegIdle == reg = [state |-> "idle"]

LookupIdle == lookup = [state |-> "idle"]

CallIdle == call = [state |-> "idle"]

ConcIdle == conc = [state |-> "idle"]

MoreIdle == MorphIdle /\ RegIdle /\ LookupIdle /\ CallIdle /\ ConcIdle

AuxIdle == TsIdle /\ RelayIdle /\ MoreIdle

\* --- what a raw client may send -----------------------------------------
CRLF == <<13, 10>>

\* "GET / HTTP/1.1\r\nHost: a\r\n"
HTTPHead ==
    <<71, 69, 84, 32, 47, 32, 72, 84, 84, 80, 47, 49, 46, 49>> \o CRLF \o
    <<72, 111, 115, 116, 58, 32, 97>> \o CRLF

\* a complete HTTP request of n bytes (n >= 34): the head, a header
\* "X: xxx...", and the empty line
HTTPRequest(n) ==
    IF n = Len(HTTPHead) + 2 THEN HTTPHead \o CRLF
    ELSE HTTPHead \o <<88, 58, 32>> \o Rep(120, n - Len(HTTPHead) - 7) \o CRLF \o CRLF

\* a TLS ClientHello record whose SNI extension names "a"
TLSHello ==
    <<22, 3, 1, 0, 57>> \o Rep(0, 38) \o <<0>> \o <<0, 2, 19, 1>> \o <<1, 0>> \o
    <<0, 10>> \o <<0, 0, 0, 6>> \o <<0, 4, 0, 0, 1, 97>>

KnownUid == Uid(1)
UnknownUid == Uid(9)

RawHandshake(uid, ts) ==
    EncodeClientHandshake(
        ClientHandshake(ScalarBaseMult(PrivKey(2)), uid, Int64(ts), ZeroNonce))

\* the timestamp 2^63 seconds away from the clock (int64 addition wraps)
FarTimestamp == Add64(Int64(Now), <<32768, 0, 0, 0>>)

\* a client handshake with any int64 as its timestamp
RawHandshake64(uid, ts) ==
    EncodeClientHandshake(ClientHandshake(ScalarBaseMult(PrivKey(2)), uid, ts, ZeroNonce))

RawScripts ==
    {<<1, 2>>,
     HTTPRequest(27),
     HTTPRequest(100),
     HTTPRequest(FallbackPeekSize + 6),
     TLSHello,
     ReflexMagic \o <<1, 2, 3>>,
     RawHandshake(UnknownUid, Now),
     RawHandshake(UnknownUid, Now) \o HTTPRequest(27),
     RawHandshake(UnknownUid, Now) \o HTTPRequest(FallbackPeekSize + 6),
     RawHandshake(KnownUid, Now - TimestampWindow - 1),
     RawHandshake(KnownUid, Now - TimestampWindow) \o <<0, 17>> \o Rep(9, 17),
     RawHandshake64(KnownUid, FarTimestamp),
     RawHandshake64(UnknownUid, FarTimestamp)}

\* "8080"
DefaultFallback == [Name |-> <<>>, Alpn |-> "", Path |-> <<>>, Dest |-> <<56, 48, 56, 48>>]

\* "8080", "127.0.0.1:8081", "8443"
NamedFallbacks ==
    <<DefaultFallback,
      [Name |-> <<97>>, Alpn |-> "http/1.1", Path |-> <<47>>,
       Dest |-> Localhost \o <<56, 48, 56, 49>>],
      [Name |-> <<97>>, Alpn |-> "tls", Path |-> <<>>, Dest |-> <<56, 52, 52, 51>>]>>

FallbackConfigs == {<<>>, <<DefaultFallback>>, NamedFallbacks}

\* the user has no policy: the default traffic profile is selected
ConfiguredUsers == [id \in {KnownUid} |-> [Email |-> "user1", Level |-> 0, Policy |-> ""]]

\* (variant) every user id is found
ValidatorGetAny(v, id) == TRUE

\* Validator.Get: found, and the user
ValidatorGet(v, id) == id \in DOMAIN v

\* ------------------------------------------------------------------------
\* Specification SpecCodec: one encoder and one decoder built from the same
\* key; frames are encoded through Encode, EncodeToWriter or WriteFrame and
\* the decoder is given the emitted frames in order, a frame it has already
\* passed (replay), or the frame it expects next with one bit inverted.
\* ------------------------------------------------------------------------
CodecKeys == {<<3, 0>> \o Rep(0, KeySize - 2), <<200, 9>> \o Rep(0, KeySize - 2)}

FrameTypes == {FrameTypeData, 255}

Payloads == {<<>>, <<255>>} \cup {Rep(7, n) : n \in 1..MaxPayloadLen}

Frames == {Frame(t, p) : t \in FrameTypes, p \in Payloads}

CodecInit ==
    /\ \E k \in CodecKeys :
          /\ encoder = NewFrameEncoder(k)
          /\ decoder = NewFrameDecoder(k)
    /\ emitted = <<>>
    /\ results = <<>>
    /\ sync = TRUE
    /\ lastCall = NoCall
    /\ ConnIdle
    /\ AuxIdle

Emit(r, f) ==
    /\ encoder' = r.enc
    /\ emitted' = Append(emitted, [frame |-> f, bytes |-> r.bytes, ctr |-> r.ctr])
    /\ UNCHANGED <<decoder, results, sync, lastCall>>
    /\ UNCHANGED <<connVars, auxVars>>

CodecEncode ==
    /\ Len(emitted) < MaxFrames
    /\ \E f \in Frames : Emit(Encode(encoder, f), f)

CodecEncodeToWriter ==
    /\ Len(emitted) < MaxFrames
    /\ \E f \in Frames : Emit(EncodeToWriter(encoder, f), f)

CodecWriteFrame ==
    /\ Len(emitted) < MaxFrames
    /\ \E f \in Frames : Emit(WriteFrame(encoder, f), f)

\* the decoder is given the next emitted frame
CodecDecodeNext ==
    /\ sync
    /\ Len(results) < Len(emitted)
    /\ LET r == Decode(decoder, emitted[Len(results) + 1].bytes)
       IN  /\ decoder' = r.dec
           /\ results' = Append(results, [err |-> r.err, frame |-> r.frame])
    /\ UNCHANGED <<encoder, emitted, sync, lastCall>>
    /\ UNCHANGED <<connVars, auxVars>>

\* the decoder is given again a frame whose counter it has already passed
CodecReplay ==
    /\ decoder.counter < MaxDecodes
    /\ \E i \in 1..Len(emitted) :
          /\ decoder.counter >= emitted[i].ctr
          /\ LET r == Decode(decoder, emitted[i].bytes)
             IN  /\ decoder' = r.dec
                 /\ lastCall' = [kind |-> "replay", err |-> r.err, frame |-> r.frame]
    /\ sync' = FALSE
    /\ UNCHANGED <<encoder, emitted, results>>
    /\ UNCHANGED <<connVars, auxVars>>

\* the decoder, having decoded in order so far, is given the frame of its
\* next counter with one bit of the bytes after the 2-byte length inverted
CodecTamper ==
    /\ sync
    /\ \E i \in 1..Len(emitted) :
          /\ decoder.counter + 1 = emitted[i].ctr
          /\ \E pos \in 3..Len(emitted[i].bytes), bit \in 0..7 :
                LET r == Decode(decoder, FlipAt(emitted[i].bytes, pos, bit))
                IN  /\ decoder' = r.dec
                    /\ lastCall' = [kind |-> "tamper", err |-> r.err, frame |-> r.frame]
    /\ sync' = FALSE
    /\ UNCHANGED <<encoder, emitted, results>>
    /\ UNCHANGED <<connVars, auxVars>>

CodecNext ==
    \/ CodecEncode
    \/ CodecEncodeToWriter
    \/ CodecWriteFrame
    \/ CodecDecodeNext
    \/ CodecReplay
    \/ CodecTamper

SpecCodec == CodecInit /\ [][CodecNext]_vars

\* ------------------------------------------------------------------------
\* Specification SpecConn
\* ------------------------------------------------------------------------
ServerPrivs == {PrivKey(3), PrivKey(4)}

ClientPrivs == {PrivKey(2)}

\* what the link readers deliver
LinkData == {<<104, 105>>}

\* 1.2.3.4:80 and ab.cd.io:443
Targets ==
    {[err |-> "", Command |-> RequestCommandTCP, Port |-> 80,
      Address |-> [family |-> "ipv4", bytes |-> <<1, 2, 3, 4>>]],
     [err |-> "", Command |-> RequestCommandTCP, Port |-> 443,
      Address |-> [family |-> "domain",
                   bytes |-> <<97, 98, 46, 99, 100, 46, 105, 111>>]]}

\* A session of a configured user never reads the fallback table, so the
\* outbound client of a configured user is paired with one table only.
ConnInit ==
    /\ CodecIdle
    /\ AuxIdle
    /\ c2s = <<>>
    /\ s2c = <<>>
    /\ ib = [IbIdle EXCEPT !.pc = "accept"]
    /\ validator = ConfiguredUsers
    /\ link = LinkIdle
    /\ events = <<>>
    /\ reflected = FALSE
    /\ \/ /\ \E s \in RawScripts, wc \in BOOLEAN :
               client = [kind |-> "raw", script |-> s, willClose |-> wc, closed |-> FALSE]
          /\ ob = ObIdle
          /\ \E cfg \in FallbackConfigs : fallbacks = BuildFallbacks(cfg)
          /\ \E up \in BOOLEAN : backend = [BackendIdle EXCEPT !.up = up]
       \/ /\ client = [ClientIdle EXCEPT !.kind = "reflex"]
          /\ \E t \in Targets :
               ob = [ObIdle EXCEPT !.pc = "start", !.uid = KnownUid, !.target = t]
          /\ fallbacks = BuildFallbacks(NamedFallbacks)
          /\ backend = [BackendIdle EXCEPT !.up = TRUE]
       \/ /\ client = [ClientIdle EXCEPT !.kind = "reflex"]
          /\ \E t \in Targets :
               /\ t.Port = 80
               /\ ob = [ObIdle EXCEPT !.pc = "start", !.uid = UnknownUid, !.target = t]
          /\ \E cfg \in FallbackConfigs : fallbacks = BuildFallbacks(cfg)
          /\ \E up \in BOOLEAN : backend = [BackendIdle EXCEPT !.up = up]

\* --- the raw client ------------------------------------------------------
SendSizes(script) == {n \in {4, PeekSize, Len(script)} : n <= Len(script)}

ClientSend ==
    /\ client.kind = "raw"
    /\ client.script # <<>>
    /\ ib.pc # "done"
    /\ \E n \in SendSizes(client.script) :
         /\ c2s' = c2s \o SubSeq(client.script, 1, n)
         /\ client' = [client EXCEPT !.script = Drop(client.script, n)]
    /\ UNCHANGED <<s2c, ib, ob, validator, fallbacks, backend, link, events, reflected>>
    /\ UNCHANGED <<codecVars, auxVars>>

\* the client closes its sending side after its last byte
ClientClose ==
    /\ client.kind = "raw"
    /\ client.script = <<>>
    /\ client.willClose
    /\ ~client.closed
    /\ client' = [client EXCEPT !.closed = TRUE]
    /\ UNCHANGED <<c2s, s2c, ib, ob, validator, fallbacks, backend, link, events, reflected>>
    /\ UNCHANGED <<codecVars, auxVars>>

\* --- reads of the inbound handler ----------------------------------------
\* the bytes the bufio.Reader has not yet handed out
Unread == Drop(c2s, ib.rpos)

\* the client will send nothing more
ClientEOF ==
    \/ client.kind = "raw" /\ client.closed
    \/ client.kind = "reflex" /\ ob.pc = "done"

\* (variant) the reader is created without a read deadline
IbAcceptNoDeadline ==
    /\ ib.pc = "accept"
    /\ ib' = [ib EXCEPT !.pc = "peek"]
    /\ UNCHANGED <<client, c2s, s2c, ob, validator, fallbacks, backend, link, events, reflected>>
    /\ UNCHANGED <<codecVars, auxVars>>

\* --- Handler.Process ------------------------------------------------------
\* conn.SetReadDeadline(now + handshake timeout), bufio.NewReader(conn)
IbAccept ==
    /\ ib.pc = "accept"
    /\ ib' = [ib EXCEPT !.pc = "peek", !.deadline = TRUE]
    /\ UNCHANGED <<client, c2s, s2c, ob, validator, fallbacks, backend, link, events, reflected>>
    /\ UNCHANGED <<codecVars, auxVars>>

\* the magic test of Process
IsReflex(peeked) == Len(peeked) >= 4 /\ SubSeq(peeked, 1, 4) = ReflexMagic

\* where Process goes with the peeked bytes
AfterPeek(peeked) == IF IsReflex(peeked) THEN "handshake" ELSE "fallback"

\* reader.Peek(76) and the branch on the magic number.  Peek returns when
\* 76 bytes are buffered, at end of stream (io.EOF, tolerated), or with the
\* deadline error when the bytes do not come in time.
IbPeekMagic ==
    /\ ib.pc = "peek"
    /\ \/ /\ (Len(Unread) >= PeekSize \/ ClientEOF)
          /\ ib' = [ib EXCEPT !.pc = AfterPeek(Take(Unread, PeekSize))]
          /\ events' = IF AfterPeek(Take(Unread, PeekSize)) = "handshake"
                       THEN Append(events, "magic") ELSE events
       \/ /\ Len(Unread) < PeekSize
          /\ ib.deadline
          /\ ib' = [ib EXCEPT !.pc = "done", !.err = "failed to peek connection"]
          /\ events' = events
    /\ UNCHANGED <<client, c2s, s2c, ob, validator, fallbacks, backend, link, reflected>>
    /\ UNCHANGED <<codecVars, auxVars>>

\* (variant) the inbound handler derives with a salt of its own
IbSessionKeyOtherSalt(serverPrivateKey, clientHS) ==
    DeriveSessionKey(DeriveSharedKey(serverPrivateKey, clientHS.PublicKey),
                     "reflex-inbound-v1")

\* the session key the inbound handler derives
IbSessionKey(serverPrivateKey, clientHS) ==
    DeriveSessionKey(DeriveSharedKey(serverPrivateKey, clientHS.PublicKey),
                     "reflex-session-v1")

\* (variant) the user is not looked up
HandshakeVerdictNoLookup(data, v, now) ==
    LET d == DecodeClientHandshake(data)
    IN  IF d.err # "" THEN "invalid handshake"
        ELSE IF ~ValidateTimestamp(d.hs.Timestamp, now) THEN "invalid timestamp"
        ELSE "ok"

\* handleReflexHandshake from DecodeClientHandshake to the user lookup:
\* what the handler does with the 76 bytes it read
HandshakeVerdict(data, v, now) ==
    LET d == DecodeClientHandshake(data)
    IN  IF d.err # "" THEN "invalid handshake"
        ELSE IF ~ValidateTimestamp(d.hs.Timestamp, now) THEN "invalid timestamp"
        ELSE IF ~ValidatorGet(v, d.hs.UserID) THEN "fallback"
        ELSE "ok"

\* the steps passed for a verdict
VerdictEvents(verdict) ==
    CASE verdict = "invalid handshake" -> <<>>
      [] verdict = "invalid timestamp" -> <<"decoded">>
      [] verdict = "fallback" -> <<"decoded", "tsValid">>
      [] OTHER -> <<"decoded", "tsValid", "userFound", "hsWritten">>

\* handleReflexHandshake up to the creation of the frame codecs
IbHandshake ==
    /\ ib.pc = "handshake"
    /\ \/ /\ Len(Unread) < ClientHandshakeSize
          /\ (ClientEOF \/ ib.deadline)
          /\ ib' = [ib EXCEPT !.pc = "done", !.err = "failed to read handshake"]
          /\ UNCHANGED <<s2c, events>>
       \/ /\ Len(Unread) >= ClientHandshakeSize
          /\ LET data    == Take(Unread, ClientHandshakeSize)
                 verdict == HandshakeVerdict(data, validator, Int64(Now))
                 hs      == DecodeClientHandshake(data).hs
             IN  /\ events' = events \o VerdictEvents(verdict)
                 /\ IF verdict = "ok"
                    THEN \E sp \in ServerPrivs :
                           LET key  == IbSessionKey(sp, hs)
                               resp == EncodeServerHandshake(
                                           ServerHandshake(ScalarBaseMult(sp), Int64(Now)))
                           IN  /\ s2c' = s2c \o resp
                               /\ ib' = [ib EXCEPT !.pc = "firstFrame",
                                                   !.rpos = @ + ClientHandshakeSize,
                                                   !.deadline = FALSE,
                                                   !.hsData = data,
                                                   !.key = key,
                                                   !.enc = NewFrameEncoder(key),
                                                   !.dec = NewFrameDecoder(key),
                                                   !.wrote = @ \o resp]
                    ELSE /\ s2c' = s2c
                         /\ ib' = IF verdict = "fallback"
                                  THEN [ib EXCEPT !.pc = "fallback",
                                                  !.rpos = @ + ClientHandshakeSize,
                                                  !.hsData = data,
                                                  !.authFailed = TRUE]
                                  ELSE [ib EXCEPT !.pc = "done",
                                                  !.rpos = @ + ClientHandshakeSize,
                                                  !.hsData = data,
                                                  !.err = verdict]
    /\ UNCHANGED <<client, c2s, ob, validator, fallbacks, backend, link, reflected>>
    /\ UNCHANGED <<codecVars, auxVars>>

\* FrameDecoder.ReadFrame on a stream of which avail is buffered and eof tells
\* that nothing more will come: it blocks, fails, or decodes 2+length bytes
ReadFrame(d, avail, eof) ==
    LET fail(e, n) == [status |-> "err", dec |-> d, err |-> e, frame |-> NoFrame,
                       used |-> n, ctr |-> 0]
        wait       == [status |-> "block", dec |-> d, err |-> "", frame |-> NoFrame,
                       used |-> 0, ctr |-> 0]
    IN  IF Len(avail) < 2
        THEN IF eof THEN fail("EOF", Len(avail)) ELSE wait
        ELSE IF Uint16BE(avail) = 0 THEN fail("zero-length frame", 2)
        ELSE IF Len(avail) < 2 + Uint16BE(avail)
        THEN IF eof THEN fail("unexpected EOF", Len(avail)) ELSE wait
        ELSE LET n == 2 + Uint16BE(avail)
                 r == Decode(d, Take(avail, n))
             IN  [status |-> IF r.err = "" THEN "ok" ELSE "err",
                  dec |-> r.dec, err |-> r.err, frame |-> r.frame,
                  used |-> n, ctr |-> r.dec.counter]

\* (variant) a CLOSE frame is skipped like a control frame
RelaySwitchCloseSkipped(frame) ==
    [next  |-> IF frame.type \in {FrameTypeData, FrameTypePadding, FrameTypeTiming,
                                  FrameTypeClose}
               THEN "loop" ELSE "err",
     write |-> IF frame.type = FrameTypeData THEN <<frame.payload>> ELSE <<>>]

\* the switch on frame.Type in the frame-reading loops: how the loop goes on
\* ("loop", return nil, return an error) and what it writes to the link
RelaySwitch(frame) ==
    [next  |-> CASE frame.type \in {FrameTypeData, FrameTypePadding, FrameTypeTiming}
                      -> "loop"
                 [] frame.type = FrameTypeClose -> "nil"
                 [] OTHER -> "err",
     write |-> IF frame.type = FrameTypeData THEN <<frame.payload>> ELSE <<>>]

\* a frame a decoder accepted, with the counter it was opened at
Accepted(r, avail) == [ctr |-> r.ctr, bytes |-> Take(avail, r.used)]

\* handleReflexHandshake from the first ReadFrame to Dispatch
IbFirstFrame ==
    /\ ib.pc = "firstFrame"
    /\ LET r == ReadFrame(ib.dec, Unread, ClientEOF)
       IN  /\ r.status # "block"
           /\ IF r.status = "err"
              THEN /\ ib' = [ib EXCEPT !.pc = "done", !.dec = r.dec,
                                       !.rpos = @ + r.used,
                                       !.err = "failed to read first frame"]
                   /\ UNCHANGED <<link, events>>
              ELSE IF r.frame.type # FrameTypeData
              THEN /\ ib' = [ib EXCEPT !.pc = "done", !.dec = r.dec,
                                       !.rpos = @ + r.used,
                                       !.accepted = Append(@, Accepted(r, Unread)),
                                       !.err = "expected data frame"]
                   /\ UNCHANGED <<link, events>>
              ELSE IF parseRequestHeader(r.frame.payload).err # ""
              THEN /\ ib' = [ib EXCEPT !.pc = "done", !.dec = r.dec,
                                       !.rpos = @ + r.used,
                                       !.accepted = Append(@, Accepted(r, Unread)),
                                       !.err = "failed to parse request"]
                   /\ UNCHANGED <<link, events>>
              ELSE \E dispatched \in BOOLEAN :
                     /\ link' = [link EXCEPT
                                   !.dispatched = @ + 1,
                                   !.request = parseRequestHeader(r.frame.payload)]
                     /\ events' = events \o <<"firstFrame", "dispatch">>
                     /\ ib' = IF dispatched
                              THEN [ib EXCEPT !.pc = "relay", !.dec = r.dec,
                                              !.rpos = @ + r.used,
                                              !.accepted = Append(@, Accepted(r, Unread)),
                                              !.first = r.frame,
                                              !.up = "first", !.down = "loop"]
                              ELSE [ib EXCEPT !.pc = "done", !.dec = r.dec,
                                              !.rpos = @ + r.used,
                                              !.accepted = Append(@, Accepted(r, Unread)),
                                              !.first = r.frame,
                                              !.err = "failed to dispatch request"]
    /\ UNCHANGED <<client, c2s, s2c, ob, validator, fallbacks, backend, reflected>>
    /\ UNCHANGED <<codecVars, auxVars>>

\* requestDone: the rest of the first payload goes to the link
IbUpFirst ==
    /\ ib.pc = "relay"
    /\ ib.up = "first"
    /\ ib' = [ib EXCEPT !.up = "loop",
                        !.firstOut = IF Len(ib.first.payload) > 12
                                     THEN <<Drop(ib.first.payload, 12)>> ELSE <<>>]
    /\ link' = IF Len(ib.first.payload) > 12
               THEN [link EXCEPT !.up = Append(@, Drop(ib.first.payload, 12))]
               ELSE link
    /\ UNCHANGED <<client, c2s, s2c, ob, validator, fallbacks, backend, events, reflected>>
    /\ UNCHANGED <<codecVars, auxVars>>

\* requestDone: one turn of the frame loop
IbUpFrame ==
    /\ ib.pc = "relay"
    /\ ib.up = "loop"
    /\ LET r == ReadFrame(ib.dec, Unread, ClientEOF)
       IN  /\ r.status # "block"
           /\ IF r.status = "err"
              THEN /\ ib' = [ib EXCEPT !.up = "err", !.dec = r.dec,
                                       !.rpos = @ + r.used, !.err = r.err]
                   /\ link' = link
              ELSE /\ ib' = [ib EXCEPT
                               !.dec = r.dec,
                               !.rpos = @ + r.used,
                               !.accepted = Append(@, Accepted(r, Unread)),
                               !.up = RelaySwitch(r.frame).next,
                               !.err = IF RelaySwitch(r.frame).next = "err"
                                       THEN "unknown frame type" ELSE @]
                   /\ link' = [link EXCEPT !.up = @ \o RelaySwitch(r.frame).write]
    /\ UNCHANGED <<client, c2s, s2c, ob, validator, fallbacks, backend, events, reflected>>
    /\ UNCHANGED <<codecVars, auxVars>>

\* responseDone: one buffer of the link becomes one DATA frame
IbDownFrame ==
    /\ ib.pc = "relay"
    /\ ib.down = "loop"
    /\ link.down < MaxLinkData
    /\ \E payload \in LinkData :
         LET w == WriteFrame(ib.enc, Frame(FrameTypeData, payload))
         IN  /\ s2c' = s2c \o w.bytes
             /\ ib' = [ib EXCEPT !.enc = w.enc,
                                 !.sent = Append(@, [ctr |-> w.ctr, bytes |-> w.bytes])]
    /\ link' = [link EXCEPT !.down = @ + 1]
    /\ UNCHANGED <<client, c2s, ob, validator, fallbacks, backend, events, reflected>>
    /\ UNCHANGED <<codecVars, auxVars>>

\* responseDone: the link reader ends
IbDownEnd ==
    /\ ib.pc = "relay"
    /\ ib.down = "loop"
    /\ ib' = [ib EXCEPT !.down = "err"]
    /\ UNCHANGED <<client, c2s, s2c, ob, validator, fallbacks, backend, link, events, reflected>>
    /\ UNCHANGED <<codecVars, auxVars>>

\* task.Run returns once a direction has ended
IbRelayEnd ==
    /\ ib.pc = "relay"
    /\ (ib.up \in {"nil", "err"} \/ ib.down \in {"nil", "err"})
    /\ ib' = [ib EXCEPT !.pc = "done"]
    /\ UNCHANGED <<client, c2s, s2c, ob, validator, fallbacks, backend, link, events, reflected>>
    /\ UNCHANGED <<codecVars, auxVars>>

\* --- Handler.handleFallback ----------------------------------------------
\* the fallback handleFallback picks for the peeked bytes (NoFallback: nil)
ChooseFallback(t, peeked) ==
    LET c  == Classify(peeked)
        fb == findFallback(t, c.name, c.alpn, c.path)
    IN  IF fb = NoFallback THEN findFallback(t, <<>>, "", <<>>) ELSE fb

\* handleFallback from reader.Peek(1024) to net.Dial.  Peek returns when
\* 1024 bytes are buffered, at end of stream (io.EOF, tolerated), or with
\* the deadline error, which ends the handler.
IbFallbackPeek ==
    /\ ib.pc = "fallback"
    /\ \/ /\ (Len(Unread) >= FallbackPeekSize \/ ClientEOF)
          /\ LET peeked == Take(Unread, FallbackPeekSize)
                 fb     == ChooseFallback(fallbacks, peeked)
             IN  IF fb = NoFallback
                 THEN /\ ib' = [ib EXCEPT !.pc = "done", !.err = "no fallback configured"]
                      /\ backend' = backend
                 ELSE IF ~backend.up
                 THEN /\ ib' = [ib EXCEPT !.pc = "done",
                                          !.err = "failed to connect to fallback"]
                      /\ backend' = backend
                 ELSE /\ ib' = [ib EXCEPT !.pc = "splice"]
                      /\ backend' = [backend EXCEPT !.dialed = TRUE,
                                                    !.addr = DialAddress(fb.Dest),
                                                    !.class = Classify(peeked)]
       \/ /\ Len(Unread) < FallbackPeekSize
          /\ ib.deadline
          /\ ib' = [ib EXCEPT !.pc = "done", !.err = "failed to peek for fallback"]
          /\ backend' = backend
    /\ UNCHANGED <<client, c2s, s2c, ob, validator, fallbacks, link, events, reflected>>
    /\ UNCHANGED <<codecVars, auxVars>>

\* io.Copy(targetConn, wrappedConn): the buffered bytes first, then the
\* socket; the copy ends at end of stream or with the deadline error
IbCopyToBackend ==
    /\ ib.pc = "splice"
    /\ \/ /\ Unread # <<>>
          /\ backend' = [backend EXCEPT !.recv = @ \o Unread]
          /\ ib' = [ib EXCEPT !.rpos = Len(c2s)]
       \/ /\ Unread = <<>>
          /\ (ClientEOF \/ ib.deadline)
          /\ ib' = [ib EXCEPT !.pc = "done"]
          /\ backend' = backend
    /\ UNCHANGED <<client, c2s, s2c, ob, validator, fallbacks, link, events, reflected>>
    /\ UNCHANGED <<codecVars, auxVars>>

\* "HTTP"
BackendReply == <<72, 84, 84, 80>>

\* io.Copy(wrappedConn, targetConn): the reply of the back-end goes to the client
IbCopyToClient ==
    /\ ib.pc = "splice"
    /\ ~backend.replied
    /\ backend.recv # <<>>
    /\ backend' = [backend EXCEPT !.replied = TRUE]
    /\ s2c' = s2c \o BackendReply
    /\ UNCHANGED <<client, c2s, ib, ob, validator, fallbacks, link, events, reflected>>
    /\ UNCHANGED <<codecVars, auxVars>>

\* the back-end closes: the second copy returns and handleFallback with it
IbBackendClosed ==
    /\ ib.pc = "splice"
    /\ backend.replied
    /\ ib' = [ib EXCEPT !.pc = "done"]
    /\ UNCHANGED <<client, c2s, s2c, ob, validator, fallbacks, backend, link, events, reflected>>
    /\ UNCHANGED <<codecVars, auxVars>>

\* --- outbound Handler.Process ---------------------------------------------
\* what is left in a pooled 40-byte buffer: zeros, or an earlier response
StaleBuffers ==
    {Rep(0, ServerHandshakeSize),
     EncodeServerHandshake(ServerHandshake(ScalarBaseMult(PrivKey(7)), Int64(Now - 5)))}

\* the byte counts one rawConn.Read may return
ReadSizes == {1, KeySize, ServerHandshakeSize}

\* the bytes of s2c the outbound handler has not read
ObUnread == Drop(s2c, ob.rpos)

\* the server will send nothing more
ServerEOF == ib.pc = "done"

\* key pair, client handshake, rawConn.Write
ObSendHandshake ==
    /\ ob.pc = "start"
    /\ \E priv \in ClientPrivs :
         LET data == EncodeClientHandshake(
                         ClientHandshake(ScalarBaseMult(priv), ob.uid, Int64(Now), ZeroNonce))
         IN  /\ c2s' = c2s \o data
             /\ ob' = [ob EXCEPT !.pc = "readResp", !.priv = priv, !.hsData = data]
    /\ UNCHANGED <<client, s2c, ib, validator, fallbacks, backend, link, events, reflected>>
    /\ UNCHANGED <<codecVars, auxVars>>

\* the session key the outbound handler derives
ObSessionKey(clientPrivateKey, serverHS) ==
    DeriveSessionKey(DeriveSharedKey(clientPrivateKey, serverHS.PublicKey),
                     "reflex-session-v1")

\* one rawConn.Read into the pooled buffer, DecodeServerHandshake, the
\* session key, the frame codecs and the first frame with the request header
ObReadResponse ==
    /\ ob.pc = "readResp"
    /\ \/ /\ ObUnread = <<>>
          /\ ServerEOF
          /\ ob' = [ob EXCEPT !.pc = "done", !.err = "failed to read handshake response"]
          /\ c2s' = c2s
       \/ /\ ObUnread # <<>>
          /\ \E n \in ReadSizes, stale \in StaleBuffers :
               /\ n <= Len(ObUnread)
               /\ LET data == Take(ObUnread, n) \o Drop(stale, n)
                      hs   == DecodeServerHandshake(data)
                      key  == ObSessionKey(ob.priv, hs.hs)
                      w    == WriteFrame(NewFrameEncoder(key),
                                         Frame(FrameTypeData, encodeRequestHeader(ob.target)))
                  IN  IF hs.err # ""
                      THEN /\ ob' = [ob EXCEPT !.pc = "done", !.rpos = @ + n,
                                               !.resp = data,
                                               !.err = "invalid server handshake"]
                           /\ c2s' = c2s
                      ELSE /\ ob' = [ob EXCEPT
                                       !.pc = "relay", !.rpos = @ + n, !.resp = data,
                                       !.key = key, !.enc = w.enc,
                                       !.dec = NewFrameDecoder(key),
                                       !.sent = Append(@, [ctr |-> w.ctr, bytes |-> w.bytes]),
                                       !.up = "loop", !.down = "loop"]
                           /\ c2s' = c2s \o w.bytes
    /\ UNCHANGED <<client, s2c, ib, validator, fallbacks, backend, link, events, reflected>>
    /\ UNCHANGED <<codecVars, auxVars>>

\* requestDone: one buffer of the link becomes one DATA frame
ObUpFrame ==
    /\ ob.pc = "relay"
    /\ ob.up = "loop"
    /\ ob.toSend < MaxLinkData
    /\ \E payload \in LinkData :
         LET w == WriteFrame(ob.enc, Frame(FrameTypeData, payload))
         IN  /\ c2s' = c2s \o w.bytes
             /\ ob' = [ob EXCEPT !.enc = w.enc, !.toSend = @ + 1,
                                 !.sent = Append(@, [ctr |-> w.ctr, bytes |-> w.bytes])]
    /\ UNCHANGED <<client, s2c, ib, validator, fallbacks, backend, link, events, reflected>>
    /\ UNCHANGED <<codecVars, auxVars>>

\* requestDone: the link reader ends (always with an error)
ObUpEnd ==
    /\ ob.pc = "relay"
    /\ ob.up = "loop"
    /\ ob' = [ob EXCEPT !.up = "err"]
    /\ UNCHANGED <<client, c2s, s2c, ib, validator, fallbacks, backend, link, events, reflected>>
    /\ UNCHANGED <<codecVars, auxVars>>

\* responseDone: one turn of the frame loop
ObDownFrame ==
    /\ ob.pc = "relay"
    /\ ob.down = "loop"
    /\ LET r == ReadFrame(ob.dec, ObUnread, ServerEOF)
       IN  /\ r.status # "block"
           /\ IF r.status = "err"
              THEN ob' = [ob EXCEPT !.down = "err", !.dec = r.dec,
                                    !.rpos = @ + r.used, !.err = r.err]
              ELSE ob' = [ob EXCEPT
                            !.dec = r.dec,
                            !.rpos = @ + r.used,
                            !.accepted = Append(@, Accepted(r, ObUnread)),
                            !.recv = @ \o RelaySwitch(r.frame).write,
                            !.down = RelaySwitch(r.frame).next,
                            !.err = IF RelaySwitch(r.frame).next = "err"
                                    THEN "unknown frame type" ELSE @]
    /\ UNCHANGED <<client, c2s, s2c, ib, validator, fallbacks, backend, link, events, reflected>>
    /\ UNCHANGED <<codecVars, auxVars>>

\* task.Run returns with the first error
ObRelayEnd ==
    /\ ob.pc = "relay"
    /\ (ob.up = "err" \/ ob.down = "err")
    /\ ob' = [ob EXCEPT !.pc = "done"]
    /\ UNCHANGED <<client, c2s, s2c, ib, validator, fallbacks, backend, link, events, reflected>>
    /\ UNCHANGED <<codecVars, auxVars>>

\* --- the network ----------------------------------------------------------
\* a frame the outbound handler sent comes back to it on its own connection
NetReflectToClient ==
    /\ ~reflected
    /\ ob.pc = "relay"
    /\ \E i \in 1..Len(ob.sent) : s2c' = s2c \o ob.sent[i].bytes
    /\ reflected' = TRUE
    /\ UNCHANGED <<client, c2s, ib, ob, validator, fallbacks, backend, link, events>>
    /\ UNCHANGED <<codecVars, auxVars>>

\* a frame the inbound handler sent comes back to it on its own connection
NetReflectToServer ==
    /\ ~reflected
    /\ ib.pc = "relay"
    /\ \E i \in 1..Len(ib.sent) : c2s' = c2s \o ib.sent[i].bytes
    /\ reflected' = TRUE
    /\ UNCHANGED <<client, s2c, ib, ob, validator, fallbacks, backend, link, events>>
    /\ UNCHANGED <<codecVars, auxVars>>

ConnNext ==
    \/ ClientSend
    \/ ClientClose
    \/ IbAccept
    \/ IbPeekMagic
    \/ IbHandshake
    \/ IbFirstFrame
    \/ IbUpFirst
    \/ IbUpFrame
    \/ IbDownFrame
    \/ IbDownEnd
    \/ IbRelayEnd
    \/ IbFallbackPeek
    \/ IbCopyToBackend
    \/ IbCopyToClient
    \/ IbBackendClosed
    \/ ObSendHandshake
    \/ ObReadResponse
    \/ ObUpFrame
    \/ ObUpEnd
    \/ ObDownFrame
    \/ ObRelayEnd
    \/ NetReflectToClient
    \/ NetReflectToServer

SpecConn == ConnInit /\ [][ConnNext]_vars

\* ------------------------------------------------------------------------
\* Specification SpecTimestamp: one call of ValidateTimestamp
\* ------------------------------------------------------------------------
MinInt64 == <<32768, 0, 0, 0>>

MaxInt64 == <<32767, 65535, 65535, 65535>>

\* the clock values: 1000, 1700000000 and the largest int64
TsNows == {Int64(Now), <<0, 0, 25939, 61696>>, MaxInt64}

\* the arguments: around the clock value, zero, negative values, the ends of
\* int64, and the values 2^63 away from the clock (int64 addition wraps)
TsArgs(now) ==
    {Add64(now, Int64(d)) : d \in (0 - TsSpan)..TsSpan}
    \cup {Int64(0), Int64(-1), Int64(-1000), MinInt64, MaxInt64}
    \cup {Add64(Add64(now, MinInt64), Int64(d)) : d \in -1..1}

TsInit ==
    /\ CodecIdle
    /\ ConnIdle
    /\ \E now \in TsNows :
         /\ tsNow = now
         /\ \E ts \in TsArgs(now) : tsArg = ts
    /\ tsResult = "none"
    /\ RelayIdle
    /\ MoreIdle

TsValidate ==
    /\ tsResult = "none"
    /\ tsResult' = IF ValidateTimestamp(tsArg, tsNow) THEN "true" ELSE "false"
    /\ UNCHANGED <<tsNow, tsArg, codecVars, connVars, relay, moreVars>>

TsNext == TsValidate

SpecTimestamp == TsInit /\ [][TsNext]_vars

\* ------------------------------------------------------------------------
\* Specification SpecRelay: the frame-reading loop (requestDone of the
\* inbound handler, responseDone of the outbound handler) on a stream of
\* frames of every type, sealed by the peer's encoder
\* ------------------------------------------------------------------------
RelayTypes == {FrameTypeData, FrameTypePadding, FrameTypeTiming, FrameTypeClose, 9}

\* the frames of a sequence of types; the i-th payload is <<i>>
RelayFrames(types) == [i \in 1..Len(types) |-> Frame(types[i], <<i>>)]

\* the bytes an encoder writes for a sequence of frames
RECURSIVE WriteFrames(_, _)
WriteFrames(e, frames) ==
    IF frames = <<>> THEN <<>>
    ELSE LET w == WriteFrame(e, Head(frames))
         IN  w.bytes \o WriteFrames(w.enc, Tail(frames))

\* The two directions run under task.Run.  The frame-reading direction is
\* requestDone in the inbound handler and responseDone in the outbound one;
\* the other direction reads the link and ends only with an error.  The
\* inbound closures cancel the context when they return (defer cancel()),
\* the outbound closures do not.
RelayInit ==
    /\ CodecIdle
    /\ ConnIdle
    /\ TsIdle
    /\ MoreIdle
    /\ \E n \in 1..MaxRelayFrames, k \in CodecKeys, side \in {"inbound", "outbound"} :
         \E types \in [1..n -> RelayTypes] :
            relay = [side      |-> side,
                     dec       |-> NewFrameDecoder(k),
                     sent      |-> RelayFrames(types),
                     stream    |-> WriteFrames(NewFrameEncoder(k), RelayFrames(types)),
                     read      |-> 0,
                     out       |-> <<>>,
                     state     |-> "loop",
                     err       |-> "",
                     other     |-> "loop",
                     cancelled |-> FALSE,
                     returned  |-> FALSE]

\* the context after a closure of the given side has returned
CancelledBy(side, cancelled) == cancelled \/ side = "inbound"

\* one turn of the frame-reading loop: ReadFrame, then the switch on the
\* frame type; the stream ends after the last frame
RelayTurn ==
    /\ relay.state = "loop"
    /\ ~relay.returned
    /\ LET r == ReadFrame(relay.dec, relay.stream, TRUE)
       IN  relay' =
             IF r.status = "err"
             THEN [relay EXCEPT !.dec = r.dec, !.stream = Drop(@, r.used),
                                !.state = "err", !.err = r.err,
                                !.cancelled = CancelledBy(relay.side, @)]
             ELSE [relay EXCEPT !.dec = r.dec, !.stream = Drop(@, r.used),
                                !.read = @ + 1,
                                !.out = @ \o RelaySwitch(r.frame).write,
                                !.state = RelaySwitch(r.frame).next,
                                !.err = IF RelaySwitch(r.frame).next = "err"
                                        THEN "unknown frame type" ELSE "",
                                !.cancelled = IF RelaySwitch(r.frame).next = "loop"
                                              THEN @ ELSE CancelledBy(relay.side, @)]
    /\ UNCHANGED <<codecVars, connVars, tsVars, moreVars>>

\* the link-reading direction ends: link.Reader.ReadMultiBuffer fails
RelayOtherEnd ==
    /\ relay.state # "idle"
    /\ relay.other = "loop"
    /\ ~relay.returned
    /\ relay' = [relay EXCEPT !.other = "err",
                              !.cancelled = CancelledBy(relay.side, @)]
    /\ UNCHANGED <<codecVars, connVars, tsVars, moreVars>>

\* task.Run can return: a task has returned an error, the context is done,
\* or every task has returned nil
RunMayReturn(r) ==
    \/ r.state = "err"
    \/ r.other = "err"
    \/ r.cancelled
    \/ (r.state = "nil" /\ r.other = "nil")

\* task.Run returns and Process with it (its deferred cancel() runs)
RelayReturn ==
    /\ relay.state # "idle"
    /\ ~relay.returned
    /\ RunMayReturn(relay)
    /\ relay' = [relay EXCEPT !.returned = TRUE, !.cancelled = TRUE]
    /\ UNCHANGED <<codecVars, connVars, tsVars, moreVars>>

RelayNext ==
    \/ RelayTurn
    \/ RelayOtherEnd
    \/ RelayReturn

SpecRelay == RelayInit /\ [][RelayNext]_vars

\* ------------------------------------------------------------------------
\* Traffic morphing (encoding/morphing.go, FrameEncoder.WriteFrameWithMorphing)
\* ------------------------------------------------------------------------
YouTubeProfile == [Name |-> "YouTube", PacketSizes |-> <<1400, 1200, 1000, 800>>,
                   Delays |-> <<10, 20, 30>>]

ZoomProfile == [Name |-> "Zoom", PacketSizes |-> <<500, 600, 700>>,
                Delays |-> <<30, 40, 50>>]

HTTP2APIProfile == [Name |-> "HTTP/2 API", PacketSizes |-> <<200, 500, 1000, 1500>>,
                    Delays |-> <<5, 10, 15>>]

NoProfile == [Name |-> "", PacketSizes |-> <<>>, Delays |-> <<>>]

\* (variant) half the smallest size of the profile is always returned
GetPacketSizeHalfMin(p) ==
    {p.PacketSizes[i] \div 2 :
        i \in {k \in DOMAIN p.PacketSizes :
                  \A j \in DOMAIN p.PacketSizes : p.PacketSizes[k] <= p.PacketSizes[j]}}

\* TrafficProfile.GetPacketSize: a weighted random choice, every pattern of
\* the profile has a positive weight; the sizes the call can return
GetPacketSize(p) == {p.PacketSizes[i] : i \in DOMAIN p.PacketSizes}

\* TrafficProfile.GetDelay (milliseconds): the delays the call can return
GetDelay(p) == {p.Delays[i] : i \in DOMAIN p.Delays}

GetProfileByName(name) ==
    CASE name = "youtube" -> YouTubeProfile
      [] name = "zoom" -> ZoomProfile
      [] name = "http2-api" -> HTTP2APIProfile
      [] OTHER -> HTTP2APIProfile

NewMorphingConfig(enabled, profileName) ==
    [Enabled |-> enabled,
     Profile |-> IF enabled THEN GetProfileByName(profileName) ELSE NoProfile]

\* (variant) the data is returned without padding
AddPaddingNone(data, targetSize, pad) == Take(data, targetSize)

\* (variant) the padding is put in front of the data
AddPaddingFront(data, targetSize, pad) ==
    IF Len(data) >= targetSize THEN Take(data, targetSize)
    ELSE Rep(pad, targetSize - Len(data)) \o data

\* AddPadding: pad is what rand.Read put behind the data
AddPadding(data, targetSize, pad) ==
    IF Len(data) >= targetSize THEN Take(data, targetSize)
    ELSE data \o Rep(pad, targetSize - Len(data))

\* the bytes rand.Read may produce, one value for the whole padding
PadBytes == {0, 170}

\* FrameEncoder.WriteFrameWithMorphing: every outcome of the call, over the
\* sizes GetPacketSize samples and the padding drawn.  An outcome is the
\* encoder after the call, the bytes written, the payloads of the frames
\* written and the number of delays applied (every sampled delay is > 0).
RECURSIVE WriteFrameWithMorphing(_, _, _)
WriteFrameWithMorphing(e, frame, config) ==
    IF ~config.Enabled \/ config.Profile = NoProfile
    THEN LET w == WriteFrame(e, frame)
         IN  {[enc |-> w.enc, bytes |-> w.bytes, payloads |-> <<frame.payload>>,
               delays |-> 0]}
    ELSE UNION {
           IF Len(frame.payload) > targetSize
           THEN LET w == WriteFrame(e, Frame(frame.type, Take(frame.payload, targetSize)))
                IN  {[enc      |-> o.enc,
                      bytes    |-> w.bytes \o o.bytes,
                      payloads |-> <<Take(frame.payload, targetSize)>> \o o.payloads,
                      delays   |-> 1 + o.delays] :
                       o \in WriteFrameWithMorphing(
                               w.enc, Frame(frame.type, Drop(frame.payload, targetSize)),
                               config)}
           ELSE {LET w == WriteFrame(e, Frame(frame.type,
                                              AddPadding(frame.payload, targetSize, pad)))
                 IN  [enc      |-> w.enc,
                      bytes    |-> w.bytes,
                      payloads |-> <<AddPadding(frame.payload, targetSize, pad)>>,
                      delays   |-> 1] : pad \in PadBytes}
           : targetSize \in GetPacketSize(config.Profile)}

\* ------------------------------------------------------------------------
\* Specification SpecMorph: one DATA payload written with
\* WriteFrameWithMorphing, read back by the peer's frame loop
\* ------------------------------------------------------------------------
\* the payload of a given length; its bytes are 1, 2, ... (mod 251)
MorphPayload(n) == [i \in 1..n |-> i % 251]

MorphLens == {0, 1, 200, 201, 600, MaxMorphLen - 1, MaxMorphLen}

\* the session key of the two ends
MorphKey == <<3, 0>> \o Rep(0, KeySize - 2)

\* the configurations: morphing off, and on with each profile name
MorphConfigs ==
    {NewMorphingConfig(FALSE, "")} \cup
    {NewMorphingConfig(TRUE, n) : n \in {"youtube", "zoom", "http2-api", ""}}

MorphInit ==
    /\ CodecIdle
    /\ ConnIdle
    /\ TsIdle
    /\ RelayIdle
    /\ RegIdle
    /\ LookupIdle
    /\ CallIdle
    /\ ConcIdle
    /\ \E n \in MorphLens, k \in {MorphKey}, c \in MorphConfigs :
         morph = [state    |-> "write",
                  config   |-> c,
                  payload  |-> MorphPayload(n),
                  enc      |-> NewFrameEncoder(k),
                  dec      |-> NewFrameDecoder(k),
                  payloads |-> <<>>,
                  delays   |-> 0,
                  stream   |-> <<>>,
                  out      |-> <<>>,
                  err      |-> ""]

\* the sender's call
MorphWrite ==
    /\ morph.state = "write"
    /\ \E o \in WriteFrameWithMorphing(morph.enc, Frame(FrameTypeData, morph.payload),
                                       morph.config) :
         morph' = [morph EXCEPT !.state = "loop", !.enc = o.enc, !.stream = o.bytes,
                                !.payloads = o.payloads, !.delays = o.delays]
    /\ UNCHANGED <<codecVars, connVars, tsVars, relay, reg, lookup, call, conc>>

\* one turn of the receiver's frame loop; the stream ends after the last frame
MorphRead ==
    /\ morph.state = "loop"
    /\ LET r == ReadFrame(morph.dec, morph.stream, TRUE)
       IN  morph' =
             IF r.status = "err"
             THEN [morph EXCEPT !.dec = r.dec, !.stream = Drop(@, r.used),
                                !.state = "err", !.err = r.err]
             ELSE LET sw == RelaySwitch(r.frame)
                  IN  [morph EXCEPT !.dec = r.dec, !.stream = Drop(@, r.used),
                                    !.out = IF sw.write = <<>> THEN @
                                            ELSE @ \o sw.write[1],
                                    !.state = sw.next]
    /\ UNCHANGED <<codecVars, connVars, tsVars, relay, reg, lookup, call, conc>>

MorphNext ==
    \/ MorphWrite
    \/ MorphRead

SpecMorph == MorphInit /\ [][MorphNext]_vars

\* ------------------------------------------------------------------------
\* Validator (validator.go): the user map behind a sync.RWMutex
\* ------------------------------------------------------------------------
\* a *protocol.MemoryUser: the id of its account, its email, and ptr, the
\* identity of the object (two users with equal fields are two objects)
MemoryUser(id, email, ptr) == [id |-> id, Email |-> email, ptr |-> ptr]

NilUser == [id |-> <<>>, Email |-> "", ptr |-> 0]

\* NewValidator: the empty map
NewValidator == [id \in {} |-> NilUser]

\* (variant) Add keeps the entry an id already has
AddKeepFirst(users, u) ==
    [users |-> [id \in DOMAIN users \cup {u.id} |->
                  IF id \in DOMAIN users THEN users[id] ELSE u],
     user |-> NilUser, err |-> "", removed |-> <<>>]

\* Validator.Add between Lock and Unlock: v.users[idArray] = u
Add(users, u) ==
    [users |-> [id \in DOMAIN users \cup {u.id} |-> IF id = u.id THEN u ELSE users[id]],
     user |-> NilUser, err |-> "", removed |-> <<>>]

\* Validator.Get between RLock and RUnlock
Get(users, userID) ==
    IF userID \in DOMAIN users
    THEN [users |-> users, user |-> users[userID], err |-> "", removed |-> <<>>]
    ELSE [users |-> users, user |-> NilUser, err |-> "user not found", removed |-> <<>>]

\* (variant) Remove deletes every entry with the email
RemoveAllMatching(users, email) ==
    IF \E id \in DOMAIN users : users[id].Email = email
    THEN {[users |-> [x \in {y \in DOMAIN users : users[y].Email # email} |-> users[x]],
           user |-> NilUser, err |-> "", removed |-> id] :
            id \in {x \in DOMAIN users : users[x].Email = email}}
    ELSE {[users |-> users, user |-> NilUser, err |-> "user not found",
           removed |-> <<>>]}

\* Validator.Remove between Lock and Unlock: the outcomes of the call.  The
\* range over the map visits the entries in an unspecified order, so the
\* entry deleted is any one whose email matches.
Remove(users, email) ==
    IF \E id \in DOMAIN users : users[id].Email = email
    THEN {[users |-> [x \in DOMAIN users \ {id} |-> users[x]],
           user |-> NilUser, err |-> "", removed |-> id] :
            id \in {x \in DOMAIN users : users[x].Email = email}}
    ELSE {[users |-> users, user |-> NilUser, err |-> "user not found",
           removed |-> <<>>]}

\* uuid.ParseString on the strings used: the canonical form of the ids 1 and
\* 2, and a string that is no UUID
UUIDString(n) == IF n = 1 THEN "01000000-0000-0000-0000-000000000000"
                 ELSE "02000000-0000-0000-0000-000000000000"

ParseString(s) ==
    CASE s = UUIDString(1) -> [ok |-> TRUE, id |-> Uid(1)]
      [] s = UUIDString(2) -> [ok |-> TRUE, id |-> Uid(2)]
      [] OTHER -> [ok |-> FALSE, id |-> <<>>]

\* ------------------------------------------------------------------------
\* Specification SpecValidator: goroutines calling Add, Remove, Get and
\* GetByUUID on one Validator
\* ------------------------------------------------------------------------
Procs == 1..MaxProcs

\* the users handed to Add; with those of the setups two have the same id
\* and two the same email
RegUsers == {MemoryUser(Uid(1), "b", 2), MemoryUser(Uid(2), "a", 3)}

RegCalls ==
    {[op |-> "Add", arg |-> u] : u \in RegUsers}
    \cup {[op |-> "Remove", arg |-> e] : e \in {"a"}}
    \cup {[op |-> "Get", arg |-> id] : id \in {Uid(1), Uid(2)}}
    \cup {[op |-> "GetByUUID", arg |-> s] : s \in {UUIDString(1), "not-a-uuid"}}

NoRegCall == [op |-> "", arg |-> <<>>]

\* the calls that take the write lock
IsWriter(c) == c.op \in {"Add", "Remove"}

\* the map the goroutines start from, as a sequence of Add calls made
\* before (New adds the configured users one by one)
RegSetups == {<<>>, <<MemoryUser(Uid(1), "a", 4)>>,
              <<MemoryUser(Uid(1), "a", 4), MemoryUser(Uid(2), "a", 5)>>}

RECURSIVE AddAll(_, _)
AddAll(users, us) ==
    IF us = <<>> THEN users ELSE AddAll(Add(users, Head(us)).users, Tail(us))

\* a finished critical section as it is logged: the caller, the call, what
\* it returned, the entry a Remove deleted and the map it found
LogEntry(p, c, o, before) ==
    [p |-> p, op |-> c.op, arg |-> c.arg, user |-> o.user, err |-> o.err,
     removed |-> o.removed, before |-> before]

RegInit ==
    /\ CodecIdle
    /\ ConnIdle
    /\ TsIdle
    /\ RelayIdle
    /\ MorphIdle
    /\ LookupIdle
    /\ CallIdle
    /\ ConcIdle
    /\ \E setup \in RegSetups :
         reg = [state   |-> "run",
                users   |-> AddAll(NewValidator, setup),
                writer  |-> 0,
                readers |-> {},
                pc      |-> [p \in Procs |-> "idle"],
                call    |-> [p \in Procs |-> NoRegCall],
                started |-> 0,
                init    |-> AddAll(NewValidator, setup),
                log     |-> [i \in 1..Len(setup) |->
                               LogEntry(0, [op |-> "Add", arg |-> setup[i]],
                                        Add(NewValidator, setup[i]),
                                        AddAll(NewValidator, SubSeq(setup, 1, i - 1)))]]

\* a goroutine calls one of the methods; the goroutines are interchangeable
\* and make their first calls in the order of their numbers
RegCall(p) ==
    /\ reg.state = "run"
    /\ reg.pc[p] = "idle"
    /\ reg.started < MaxRegCalls
    /\ \A q \in 1..(p - 1) : reg.call[q] # NoRegCall
    /\ \E c \in RegCalls :
         reg' = [reg EXCEPT !.pc[p] = "entry", !.call[p] = c, !.started = @ + 1]
    /\ UNCHANGED <<codecVars, connVars, tsVars, relay, morph, lookup, call, conc>>

\* GetByUUID on a string that does not parse returns before any lock
RegInvalidUUID(p) ==
    /\ reg.state = "run"
    /\ reg.pc[p] = "entry"
    /\ reg.call[p].op = "GetByUUID"
    /\ ~ParseString(reg.call[p].arg).ok
    /\ reg' = [reg EXCEPT !.pc[p] = "idle",
                          !.log = Append(@, LogEntry(p, reg.call[p],
                                                     [user |-> NilUser,
                                                      err |-> "invalid UUID",
                                                      removed |-> <<>>], reg.users))]
    /\ UNCHANGED <<codecVars, connVars, tsVars, relay, morph, lookup, call, conc>>

\* (variant) RLock does not wait for the writer
CanRLockAlways(r) == TRUE

\* sync.RWMutex: RLock returns when no writer holds the lock
CanRLock(r) == r.writer = 0

\* sync.RWMutex: Lock returns when nobody holds the lock
CanLock(r) == r.writer = 0 /\ r.readers = {}

\* v.Lock() / v.RLock() returns
RegLock(p) ==
    /\ reg.state = "run"
    /\ reg.pc[p] = "entry"
    /\ reg.call[p].op = "GetByUUID" => ParseString(reg.call[p].arg).ok
    /\ IF IsWriter(reg.call[p])
       THEN /\ CanLock(reg)
            /\ reg' = [reg EXCEPT !.pc[p] = "cs", !.writer = p]
       ELSE /\ CanRLock(reg)
            /\ reg' = [reg EXCEPT !.pc[p] = "cs", !.readers = @ \cup {p}]
    /\ UNCHANGED <<codecVars, connVars, tsVars, relay, morph, lookup, call, conc>>

\* the map access of goroutine p runs while another goroutine that holds
\* the lock may write the map, or p writes while another one holds it
Races(r, p) ==
    \E q \in Procs \ {p} :
       /\ r.pc[q] \in {"cs", "unlock"}
       /\ IsWriter(r.call[p]) \/ IsWriter(r.call[q])

\* what the body of the call can do to the map and return
BodyOutcomes(users, c) ==
    CASE c.op = "Add" -> {Add(users, c.arg)}
      [] c.op = "Remove" -> Remove(users, c.arg)
      [] c.op = "Get" -> {Get(users, c.arg)}
      [] c.op = "GetByUUID" -> {Get(users, ParseString(c.arg).id)}

\* what a body that races with a map write can return: any user or none
RacyOutcomes(users, c) ==
    {[users |-> users, user |-> u, err |-> e, removed |-> <<>>] :
       u \in RegUsers \cup {NilUser}, e \in {"", "user not found"}}

\* the body of the method, between the lock and the deferred unlock
RegBody(p) ==
    /\ reg.state = "run"
    /\ reg.pc[p] = "cs"
    /\ \E o \in (IF Races(reg, p) THEN RacyOutcomes(reg.users, reg.call[p])
                 ELSE BodyOutcomes(reg.users, reg.call[p])) :
         reg' = [reg EXCEPT !.pc[p] = "unlock", !.users = o.users,
                            !.log = Append(@, LogEntry(p, reg.call[p], o, reg.users))]
    /\ UNCHANGED <<codecVars, connVars, tsVars, relay, morph, lookup, call, conc>>

\* the deferred v.Unlock() / v.RUnlock() runs and the call returns
RegUnlock(p) ==
    /\ reg.state = "run"
    /\ reg.pc[p] = "unlock"
    /\ reg' = [reg EXCEPT !.pc[p] = "idle",
                          !.writer = IF @ = p THEN 0 ELSE @,
                          !.readers = @ \ {p}]
    /\ UNCHANGED <<codecVars, connVars, tsVars, relay, morph, lookup, call, conc>>

RegNext ==
    \E p \in Procs :
       \/ RegCall(p)
       \/ RegInvalidUUID(p)
       \/ RegLock(p)
       \/ RegBody(p)
       \/ RegUnlock(p)

SpecValidator == RegInit /\ [][RegNext]_vars

\* a goroutine that has called a method goes on running
RegStep(p) == RegInvalidUUID(p) \/ RegLock(p) \/ RegBody(p) \/ RegUnlock(p)

SpecValidatorFair ==
    RegInit /\ [][RegNext]_vars /\ \A p \in Procs : WF_vars(RegStep(p))

\* ------------------------------------------------------------------------
\* Specification SpecLookup: findFallback on a table built by New
\* ------------------------------------------------------------------------
\* the names, ALPN values and paths of configured entries ("a", "h2", "/")
LookupNames == {<<>>, <<97>>}

LookupAlpns == {"", "h2"}

LookupPaths == {<<>>, <<47>>}

\* those of requests: also values no entry is configured for
RequestNames == LookupNames \cup {<<98>>}

RequestAlpns == LookupAlpns \cup {"tls"}

RequestPaths == LookupPaths \cup {<<47, 120>>}

\* the entries config.Fallbacks may hold; the destination of an entry is a
\* port that tells the entries apart, the last two have the same key
LookupEntries ==
    <<[Name |-> <<97>>, Alpn |-> "h2", Path |-> <<47>>, Dest |-> <<56, 48, 48, 49>>],
      [Name |-> <<97>>, Alpn |-> "h2", Path |-> <<>>, Dest |-> <<56, 48, 48, 50>>],
      [Name |-> <<97>>, Alpn |-> "", Path |-> <<47>>, Dest |-> <<56, 48, 48, 51>>],
      [Name |-> <<97>>, Alpn |-> "", Path |-> <<>>, Dest |-> <<56, 48, 48, 52>>],
      [Name |-> <<>>, Alpn |-> "h2", Path |-> <<47>>, Dest |-> <<56, 48, 48, 53>>],
      [Name |-> <<>>, Alpn |-> "h2", Path |-> <<>>, Dest |-> <<56, 48, 48, 54>>],
      [Name |-> <<>>, Alpn |-> "", Path |-> <<47>>, Dest |-> <<56, 48, 48, 55>>],
      [Name |-> <<>>, Alpn |-> "", Path |-> <<>>, Dest |-> <<56, 48, 48, 56>>],
      [Name |-> <<>>, Alpn |-> "", Path |-> <<>>, Dest |-> <<56, 48, 48, 57>>]>>

\* the entries of LookupEntries chosen by the set s of positions, in order
RECURSIVE PickEntries(_, _)
PickEntries(s, i) ==
    IF i > Len(LookupEntries) THEN <<>>
    ELSE (IF i \in s THEN <<LookupEntries[i]>> ELSE <<>>) \o PickEntries(s, i + 1)

LookupInit ==
    /\ CodecIdle
    /\ ConnIdle
    /\ TsIdle
    /\ RelayIdle
    /\ MorphIdle
    /\ RegIdle
    /\ CallIdle
    /\ ConcIdle
    /\ \E s \in SUBSET (1..Len(LookupEntries)) :
         /\ Cardinality(s) <= MaxFallbackEntries
         /\ \E n \in RequestNames, a \in RequestAlpns, p \in RequestPaths :
              lookup = [state  |-> "ask",
                        config |-> PickEntries(s, 1),
                        table  |-> BuildFallbacks(PickEntries(s, 1)),
                        name   |-> n,
                        alpn   |-> a,
                        path   |-> p,
                        result |-> NoFallback]

\* h.findFallback(name, alpn, path)
LookupFind ==
    /\ lookup.state = "ask"
    /\ lookup' = [lookup EXCEPT
                    !.state = "done",
                    !.result = findFallback(lookup.table, lookup.name, lookup.alpn,
                                            lookup.path)]
    /\ UNCHANGED <<codecVars, connVars, tsVars, relay, morph, reg, call, conc>>

LookupNext == LookupFind

SpecLookup == LookupInit /\ [][LookupNext]_vars

\* ------------------------------------------------------------------------
\* Specification SpecLength: one call of Encode or EncodeToWriter on a
\* payload of a given size, up to sizes past the 16-bit length field
\* ------------------------------------------------------------------------
\* the payload of n bytes 0, 1, 2, ... (mod 256)
SizedPayload(n) == [i \in 1..n |-> (i - 1) % ByteMod]

\* payload sizes: small ones, MaxFramePayloadSize and beyond, and those
\* whose ciphertext has 65535 bytes and more
EncodeLens ==
    {0, 1, 2, 3, 100, MaxFramePayloadSize, MaxFramePayloadSize + 1000,
     MaxEncodeLen - 2, MaxEncodeLen - 1, MaxEncodeLen}

\* the encoder's counter before the call; the payloads of more than 100
\* bytes are DATA frames encoded by a fresh encoder under one key
EncodeCounters == {0, 5}

LengthInit ==
    /\ CodecIdle
    /\ ConnIdle
    /\ TsIdle
    /\ RelayIdle
    /\ MorphIdle
    /\ RegIdle
    /\ LookupIdle
    /\ ConcIdle
    /\ \E n \in EncodeLens, k \in CodecKeys, t \in FrameTypes, c \in EncodeCounters :
         /\ n > 100 => (k = MorphKey /\ t = FrameTypeData /\ c = 0)
         /\ call = [state   |-> "frame",
                 enc     |-> [key |-> k, counter |-> c],
                 type    |-> t,
                 size    |-> n,
                 fn      |-> "",
                 header  |-> <<>>,
                 follows |-> 0,
                 counter |-> c]

\* what is kept of a call: the two bytes of the length field, the number of
\* bytes that follow them and the encoder's counter
Encoded(fn, r) ==
    [call EXCEPT !.state = "encoded", !.fn = fn, !.header = Take(r.bytes, 2),
                 !.follows = Len(r.bytes) - 2, !.counter = r.enc.counter]

\* encoder.Encode(frame)
LengthEncode ==
    /\ call.state = "frame"
    /\ call' = Encoded("Encode",
                       Encode(call.enc, Frame(call.type, SizedPayload(call.size))))
    /\ UNCHANGED <<codecVars, connVars, tsVars, relay, morph, reg, lookup, conc>>

\* encoder.EncodeToWriter(w, frame)
LengthEncodeToWriter ==
    /\ call.state = "frame"
    /\ call' = Encoded("EncodeToWriter",
                       EncodeToWriter(call.enc, Frame(call.type, SizedPayload(call.size))))
    /\ UNCHANGED <<codecVars, connVars, tsVars, relay, morph, reg, lookup, conc>>

LengthNext ==
    \/ LengthEncode
    \/ LengthEncodeToWriter

SpecLength == LengthInit /\ [][LengthNext]_vars

\* ------------------------------------------------------------------------
\* Specification SpecHeader: encodeRequestHeader (outbound) and
\* parseRequestHeader (inbound) on requests and on arbitrary payloads
\* ------------------------------------------------------------------------
\* the domain name of n bytes "aaa...a"
DomainName(n) == Rep(97, n)

\* addresses: IPv4, IPv6 and domain names of 1 to 255 bytes
HeaderAddresses ==
    {[family |-> "ipv4", bytes |-> <<1, 2, 3, 4>>],
     [family |-> "ipv4", bytes |-> <<255, 255, 255, 255>>],
     [family |-> "ipv6", bytes |-> <<32, 1, 13, 184>> \o Rep(0, 11) \o <<1>>]}
    \cup {[family |-> "domain", bytes |-> DomainName(n)] : n \in 1..MaxDomainLen}
    \cup {[family |-> "domain", bytes |-> DomainName(255)]}

HeaderRequests ==
    {[Command |-> c, Port |-> p, Address |-> a] :
       c \in {RequestCommandTCP, RequestCommandUDP}, p \in {0, 443, 65535},
       a \in HeaderAddresses}

\* payloads that are no output of encodeRequestHeader: the outputs cut short,
\* and those with the address type replaced by one that does not exist
HeaderPayloads ==
    LET outs == {encodeRequestHeader(r) : r \in {x \in HeaderRequests : x.Port = 443}}
    IN  {Take(e, n) : e \in outs, n \in 0..MaxHeaderCut}
        \cup {Take([e EXCEPT ![4] = 9], n) : e \in outs, n \in 4..MaxHeaderCut}

NoRequest == [Command |-> 0, Port |-> 0, Address |-> NoAddress]

HeaderInit ==
    /\ CodecIdle
    /\ ConnIdle
    /\ TsIdle
    /\ RelayIdle
    /\ MorphIdle
    /\ RegIdle
    /\ LookupIdle
    /\ ConcIdle
    /\ \/ \E r \in HeaderRequests :
            call = [state |-> "request", request |-> r, payload |-> <<>>,
                    parsed |-> parseRequestHeader(<<>>)]
       \/ \E p \in HeaderPayloads :
            call = [state |-> "payload", request |-> NoRequest, payload |-> p,
                    parsed |-> parseRequestHeader(<<>>)]

\* the outbound handler encodes the request as the payload of the first frame
HeaderEncode ==
    /\ call.state = "request"
    /\ call' = [call EXCEPT !.state = "payload",
                            !.payload = encodeRequestHeader(call.request)]
    /\ UNCHANGED <<codecVars, connVars, tsVars, relay, morph, reg, lookup, conc>>

\* the inbound handler parses the payload of the first frame
HeaderParse ==
    /\ call.state = "payload"
    /\ call' = [call EXCEPT !.state = "parsed",
                            !.parsed = parseRequestHeader(call.payload)]
    /\ UNCHANGED <<codecVars, connVars, tsVars, relay, morph, reg, lookup, conc>>

HeaderNext ==
    \/ HeaderEncode
    \/ HeaderParse

SpecHeader == HeaderInit /\ [][HeaderNext]_vars

\* ------------------------------------------------------------------------
\* The handshake codec over pooled buffers (SpecHandshake)

\* copy(buf[lo:hi], src): min(hi - lo, len(src)) bytes are written at lo
CopyInto(buf, lo, hi, src) ==
    [i \in 1..Len(buf) |->
        IF i > lo /\ i <= lo + Min(hi - lo, Len(src)) THEN src[i - lo] ELSE buf[i]]

\* binary.BigEndian.PutUint32(buf[0:4], ReflexMagic)
PutUint32Magic(buf) == CopyInto(buf, 0, 4, ReflexMagic)

\* a variant that leaves the last 16 bytes of the buffer as they were
EncodeClientHandshakeNoNonce(buf, hs) ==
    LET b1 == PutUint32Magic(buf)
        b2 == CopyInto(b1, 4, 36, hs.PublicKey)
        b3 == CopyInto(b2, 36, 52, hs.UserID)
    IN  CopyInto(b3, 52, 60, PutInt64BE(hs.Timestamp))

\* EncodeClientHandshake on the buffer GetClientHandshakeBuffer returned
EncodeClientHandshakePooled(buf, hs) ==
    LET b1 == PutUint32Magic(buf)
        b2 == CopyInto(b1, 4, 36, hs.PublicKey)
        b3 == CopyInto(b2, 36, 52, hs.UserID)
        b4 == CopyInto(b3, 52, 60, PutInt64BE(hs.Timestamp))
    IN  CopyInto(b4, 60, 76, hs.Nonce)

\* EncodeServerHandshake on the buffer GetServerHandshakeBuffer returned
EncodeServerHandshakePooled(buf, hs) ==
    CopyInto(CopyInto(buf, 0, 32, hs.PublicKey), 32, 40, PutInt64BE(hs.Timestamp))

\* the nil handshakes returned with an error
NilClientHandshake == ClientHandshake(<<>>, <<>>, Int64(0), <<>>)

NilServerHandshake == ServerHandshake(<<>>, Int64(0))

HsTimestamps ==
    {Int64(Now), Int64(0), Int64(-1), Int64(-Now), MinInt64, MaxInt64,
     <<65535, 0, 32768, 255>>, <<1, 2, 3, 4>>}

HsPublicKeys == {ScalarBaseMult(PrivKey(1)), Rep(255, KeySize), [i \in 1..KeySize |-> i]}

HsClientHandshakes ==
    {ClientHandshake(p, u, t, n) :
        p \in HsPublicKeys, u \in {KnownUid, Rep(255, 16)}, t \in HsTimestamps,
        n \in {ZeroNonce, [i \in 1..16 |-> 100 + i]}}

HsServerHandshakes == {ServerHandshake(p, t) : p \in HsPublicKeys, t \in HsTimestamps}

\* what a buffer taken from clientHandshakePool can hold: zeroes when new,
\* otherwise the bytes its last user left
ClientPoolBuffers ==
    {Rep(0, ClientHandshakeSize), Rep(255, ClientHandshakeSize),
     EncodeClientHandshake(ClientHandshake(Rep(7, KeySize), Rep(8, 16), MaxInt64, Rep(9, 16)))}

ServerPoolBuffers ==
    {Rep(0, ServerHandshakeSize), Rep(255, ServerHandshakeSize),
     EncodeServerHandshake(ServerHandshake(Rep(7, KeySize), MaxInt64))}

\* byte strings handed to the decoders: cut handshakes with and without the
\* magic, and full-size and longer ones whose first four bytes are not the magic
HsWire == EncodeClientHandshake(ClientHandshake([i \in 1..KeySize |-> i], KnownUid,
                                                Int64(Now), ZeroNonce))

HsBadMagics == {<<0, 0, 0, 0>>, <<82, 70, 88, 77>>, <<83, 70, 88, 76>>, <<76, 88, 70, 82>>}

HsClientInputs ==
    {Take(HsWire, n) : n \in 0..(ClientHandshakeSize - 1)}
    \cup {Take(Rep(0, ClientHandshakeSize), n) : n \in 0..(ClientHandshakeSize - 1)}
    \cup {m \o Drop(HsWire, 4) \o Rep(1, k) : m \in HsBadMagics, k \in {0, 1, 4}}
    \cup {HsWire \o Rep(1, k) : k \in {0, 1, 4}}

HsServerInputs ==
    {Take(Drop(HsWire, 4), n) : n \in 0..(ServerHandshakeSize + 1)}

HsInit ==
    /\ CodecIdle
    /\ ConnIdle
    /\ TsIdle
    /\ RelayIdle
    /\ MorphIdle
    /\ RegIdle
    /\ LookupIdle
    /\ ConcIdle
    /\ \/ \E h \in HsClientHandshakes, b \in ClientPoolBuffers :
            call = [state |-> "handshake", side |-> "client", hs |-> h, pool |-> b,
                    data |-> <<>>, out |-> DecodeClientHandshake(<<>>)]
       \/ \E h \in HsServerHandshakes, b \in ServerPoolBuffers :
            call = [state |-> "handshake", side |-> "server", hs |-> h, pool |-> b,
                    data |-> <<>>, out |-> DecodeServerHandshake(<<>>)]
       \/ \E d \in HsClientInputs :
            call = [state |-> "wire", side |-> "client", hs |-> NilClientHandshake,
                    pool |-> <<>>, data |-> d, out |-> DecodeClientHandshake(<<>>)]
       \/ \E d \in HsServerInputs :
            call = [state |-> "wire", side |-> "server", hs |-> NilServerHandshake,
                    pool |-> <<>>, data |-> d, out |-> DecodeServerHandshake(<<>>)]

\* EncodeClientHandshake / EncodeServerHandshake
HsEncode ==
    /\ call.state = "handshake"
    /\ call' = [call EXCEPT !.state = "wire",
                            !.data = IF call.side = "client"
                                     THEN EncodeClientHandshakePooled(call.pool, call.hs)
                                     ELSE EncodeServerHandshakePooled(call.pool, call.hs)]
    /\ UNCHANGED <<codecVars, connVars, tsVars, relay, morph, reg, lookup, conc>>

\* DecodeClientHandshake / DecodeServerHandshake
HsDecode ==
    /\ call.state = "wire"
    /\ call' = [call EXCEPT !.state = "decoded",
                            !.out = IF call.side = "client"
                                    THEN DecodeClientHandshake(call.data)
                                    ELSE DecodeServerHandshake(call.data)]
    /\ UNCHANGED <<codecVars, connVars, tsVars, relay, morph, reg, lookup, conc>>

HsNext ==
    \/ HsEncode
    \/ HsDecode

SpecHandshake == HsInit /\ [][HsNext]_vars

\* Decode and ReadFrame on arbitrary bytes (SpecDecode)

\* the bytes after a length header in the enumerated inputs
MaxHeader == Uint16Mod - 1

DecodeTail == Rep(7, 18)

\* two sealed frames of the session the decoder belongs to
SealedFrames ==
    {Encode(NewFrameEncoder(MorphKey), Frame(FrameTypeData, p)).bytes : p \in {<<>>, <<1, 2>>}}

\* the inputs: every length header followed by 18 bytes; the three largest
\* headers followed by exactly as many bytes as they announce (pad counts the
\* zero bytes appended to data); sealed frames, whole and cut; almost nothing
DecodeInputs ==
    {[data |-> PutUint16BE(h) \o DecodeTail, pad |-> 0] : h \in 0..MaxHeader}
    \cup {[data |-> PutUint16BE(h) \o DecodeTail, pad |-> h - Len(DecodeTail)] :
            h \in (MaxHeader - 2)..MaxHeader}
    \cup {[data |-> f, pad |-> 0] : f \in SealedFrames}
    \cup {[data |-> Take(f, Len(f) - 1), pad |-> 0] : f \in SealedFrames}
    \cup {[data |-> d, pad |-> 0] : d \in {<<>>, <<5>>, <<0, 0>>}}

DecodeData(c) == c.data \o Rep(0, c.pad)

DecodeInit ==
    /\ CodecIdle
    /\ ConnIdle
    /\ TsIdle
    /\ RelayIdle
    /\ MorphIdle
    /\ RegIdle
    /\ LookupIdle
    /\ ConcIdle
    /\ \E i \in DecodeInputs :
         call = [state |-> "bytes", fn |-> "", data |-> i.data, pad |-> i.pad,
                 err |-> "", frame |-> NoFrame, counter |-> 0,
                 later |-> [k |-> 0, err |-> "", counter |-> 0]]

\* decoder.Decode(data)
DecodeCall ==
    /\ call.state = "bytes"
    /\ LET r == Decode(NewFrameDecoder(MorphKey), DecodeData(call))
       IN  call' = [call EXCEPT !.state = "returned", !.fn = "Decode", !.err = r.err,
                                !.frame = r.frame, !.counter = r.dec.counter]
    /\ UNCHANGED <<codecVars, connVars, tsVars, relay, morph, reg, lookup, conc>>

\* decoder.ReadFrame(r) on a reader that delivers the bytes and then EOF
ReadFrameCall ==
    /\ call.state = "bytes"
    /\ LET r == ReadFrame(NewFrameDecoder(MorphKey), DecodeData(call), TRUE)
       IN  call' = [call EXCEPT !.state = "returned", !.fn = "ReadFrame", !.err = r.err,
                                !.frame = r.frame, !.counter = r.dec.counter]
    /\ UNCHANGED <<codecVars, connVars, tsVars, relay, morph, reg, lookup, conc>>

\* the first two frames of the encoder of the session, in the order sent
HonestFrames ==
    LET e  == NewFrameEncoder(MorphKey)
        f1 == Encode(e, Frame(FrameTypeData, <<1, 2>>))
        f2 == Encode(f1.enc, Frame(FrameTypeData, <<3>>))
    IN  <<f1.bytes, f2.bytes>>

\* after a call that failed authentication the same decoder is given a
\* frame of the session's encoder
DecodeLater ==
    /\ call.state = "returned"
    /\ call.err = "decryption failed"
    /\ \E k \in 1..Len(HonestFrames) :
         LET d == [NewFrameDecoder(MorphKey) EXCEPT !.counter = call.counter]
             r == Decode(d, HonestFrames[k])
         IN  call' = [call EXCEPT !.state = "later",
                                  !.later = [k |-> k, err |-> r.err,
                                             counter |-> r.dec.counter]]
    /\ UNCHANGED <<codecVars, connVars, tsVars, relay, morph, reg, lookup, conc>>

DecodeNext ==
    \/ DecodeCall
    \/ ReadFrameCall
    \/ DecodeLater

SpecDecode == DecodeInit /\ [][DecodeNext]_vars

\* One handler serving several connections (SpecReplay)

MaxConns == 3

MaxClock == 180

ClockStep == 60

\* the 76-byte records presented to the server
ReplayRecords ==
    {EncodeClientHandshake(ClientHandshake(ScalarBaseMult(PrivKey(2)), u, Int64(t), n)) :
        u \in {KnownUid, UnknownUid},
        t \in {Now - TimestampWindow, Now, Now + ClockStep},
        n \in {ZeroNonce, [i \in 1..16 |-> i]}}

\* the handler after New: its fields are the policy manager, the validator
\* and the fallbacks; accepted lists, for the check, the records for which a
\* handshake was completed
ReplayInit ==
    /\ CodecIdle
    /\ ConnIdle
    /\ TsIdle
    /\ RelayIdle
    /\ MorphIdle
    /\ RegIdle
    /\ LookupIdle
    /\ ConcIdle
    /\ call = [state |-> "serving", clock |-> 0, conns |-> 0, accepted |-> <<>>,
               last |-> ""]

\* Process on a new connection whose first 76 bytes are the record r
ReplayConnect ==
    /\ call.state = "serving"
    /\ call.conns < MaxConns
    /\ \E r \in ReplayRecords :
         LET verdict == HandshakeVerdict(r, ConfiguredUsers, Int64(Now + call.clock))
         IN  call' = [call EXCEPT !.conns = @ + 1, !.last = verdict,
                                  !.accepted = IF verdict = "ok" THEN Append(@, r) ELSE @]
    /\ UNCHANGED <<codecVars, connVars, tsVars, relay, morph, reg, lookup, conc>>

\* time passes between connections
ReplayTick ==
    /\ call.state = "serving"
    /\ call.clock + ClockStep <= MaxClock
    /\ call' = [call EXCEPT !.clock = @ + ClockStep]
    /\ UNCHANGED <<codecVars, connVars, tsVars, relay, morph, reg, lookup, conc>>

ReplayNext ==
    \/ ReplayConnect
    \/ ReplayTick

SpecReplay == ReplayInit /\ [][ReplayNext]_vars

\* Goroutines sharing one encoder and one decoder (SpecConcurrent)

MaxGoroutines == 3

Goroutines == 1..MaxGoroutines

\* var sessionKey [32]byte
ZeroSessionKey == Rep(0, KeySize)

\* the frame goroutine p encodes
ConcFrame(p) == Frame(FrameTypeData, <<p % ByteMod>>)

\* FrameEncoder and FrameDecoder with the nonce buffer they own: counter and
\* nonce are plain fields, read and written without a lock
ConcCodec == [key |-> ZeroSessionKey, counter |-> 0, nonce |-> 0]

\* Every access of a goroutine to the shared fields is a step of its own:
\* counter++ is a load and a store, PutUint64(nonce, counter) reads the
\* counter again and writes the nonce buffer, and Seal / Open read the nonce
\* buffer.  The accesses are unsynchronised, so any interleaving can be seen.
ConcInit ==
    /\ CodecIdle
    /\ ConnIdle
    /\ TsIdle
    /\ RelayIdle
    /\ MorphIdle
    /\ RegIdle
    /\ LookupIdle
    /\ CallIdle
    /\ conc = [state   |-> "run",
               pc      |-> [p \in Goroutines |-> "encLoad"],
               tmp     |-> [p \in Goroutines |-> 0],
               enc     |-> ConcCodec,
               dec     |-> ConcCodec,
               sealed  |-> [p \in Goroutines |-> 0],
               opened  |-> [p \in Goroutines |-> 0],
               encoded |-> [p \in Goroutines |-> <<>>],
               err     |-> [p \in Goroutines |-> ""]]

\* e.counter++ : the load
ConcEncLoad(p) ==
    /\ conc.state = "run"
    /\ conc.pc[p] = "encLoad"
    /\ conc' = [conc EXCEPT !.pc[p] = "encStore", !.tmp[p] = conc.enc.counter]
    /\ UNCHANGED <<codecVars, connVars, tsVars, relay, morph, reg, lookup, call>>

\* e.counter++ : the store
ConcEncStore(p) ==
    /\ conc.state = "run"
    /\ conc.pc[p] = "encStore"
    /\ conc' = [conc EXCEPT !.pc[p] = "encNonce",
                            !.enc.counter = EncNextCounter([counter |-> conc.tmp[p]])]
    /\ UNCHANGED <<codecVars, connVars, tsVars, relay, morph, reg, lookup, call>>

\* binary.LittleEndian.PutUint64(e.nonce, e.counter)
ConcEncNonce(p) ==
    /\ conc.state = "run"
    /\ conc.pc[p] = "encNonce"
    /\ conc' = [conc EXCEPT !.pc[p] = "seal", !.enc.nonce = conc.enc.counter]
    /\ UNCHANGED <<codecVars, connVars, tsVars, relay, morph, reg, lookup, call>>

\* e.aead.Seal(..., e.nonce, plaintext, nil) and the framing; Encode returns
ConcEncSeal(p) ==
    /\ conc.state = "run"
    /\ conc.pc[p] = "seal"
    /\ LET plaintext  == <<ConcFrame(p).type>> \o ConcFrame(p).payload
           ciphertext == Seal(conc.enc.key, conc.enc.nonce, plaintext)
       IN  conc' = [conc EXCEPT
                      !.pc[p] = "decLoad",
                      !.sealed[p] = conc.enc.nonce,
                      !.encoded[p] = PutUint16BE(Len(ciphertext) % Uint16Mod) \o ciphertext]
    /\ UNCHANGED <<codecVars, connVars, tsVars, relay, morph, reg, lookup, call>>

\* decoder.Decode(encoded): the length tests pass; d.counter++ : the load
ConcDecLoad(p) ==
    /\ conc.state = "run"
    /\ conc.pc[p] = "decLoad"
    /\ conc' = [conc EXCEPT !.pc[p] = "decStore", !.tmp[p] = conc.dec.counter]
    /\ UNCHANGED <<codecVars, connVars, tsVars, relay, morph, reg, lookup, call>>

\* d.counter++ : the store
ConcDecStore(p) ==
    /\ conc.state = "run"
    /\ conc.pc[p] = "decStore"
    /\ conc' = [conc EXCEPT !.pc[p] = "decNonce",
                            !.dec.counter = DecNextCounter([counter |-> conc.tmp[p]])]
    /\ UNCHANGED <<codecVars, connVars, tsVars, relay, morph, reg, lookup, call>>

\* binary.LittleEndian.PutUint64(d.nonce, d.counter)
ConcDecNonce(p) ==
    /\ conc.state = "run"
    /\ conc.pc[p] = "decNonce"
    /\ conc' = [conc EXCEPT !.pc[p] = "open", !.dec.nonce = conc.dec.counter]
    /\ UNCHANGED <<codecVars, connVars, tsVars, relay, morph, reg, lookup, call>>

\* d.aead.Open(..., d.nonce, ciphertext, nil); Decode returns, done <- true
ConcDecOpen(p) ==
    /\ conc.state = "run"
    /\ conc.pc[p] = "open"
    /\ LET r == DecodeOpened(Open(conc.dec.key, conc.dec.nonce, Drop(conc.encoded[p], 2)))
       IN  conc' = [conc EXCEPT !.pc[p] = "done",
                                !.opened[p] = conc.dec.nonce,
                                !.err[p] = r.err]
    /\ UNCHANGED <<codecVars, connVars, tsVars, relay, morph, reg, lookup, call>>

ConcNext ==
    \E p \in Goroutines :
       \/ ConcEncLoad(p)
       \/ ConcEncStore(p)
       \/ ConcEncNonce(p)
       \/ ConcEncSeal(p)
       \/ ConcDecLoad(p)
       \/ ConcDecStore(p)
       \/ ConcDecNonce(p)
       \/ ConcDecOpen(p)

SpecConcurrent == ConcInit /\ [][ConcNext]_vars

\* WriteFrameWithMorphing step by step, on a writer that may fail (SpecMorphSteps)

\* the writes the writer accepts before it fails; MaxWrites: it never fails
MaxWrites == 9

StepRooms == {0, 1, 2, MaxWrites}

StepLens == {0, 201, MaxMorphLen}

StepConfigs == {NewMorphingConfig(TRUE, n) : n \in {"youtube", "zoom", "http2-api"}}

StepInit ==
    /\ CodecIdle
    /\ ConnIdle
    /\ TsIdle
    /\ RelayIdle
    /\ MorphIdle
    /\ RegIdle
    /\ LookupIdle
    /\ ConcIdle
    /\ \E n \in StepLens, c \in StepConfigs, room \in StepRooms,
          tc \in {<<FrameTypeData, 0>>, <<FrameTypeTiming, 5>>} :
         call = [state   |-> "enter",
                 config  |-> c,
                 type    |-> tc[1],
                 payload |-> MorphPayload(n),
                 off     |-> 0,
                 enc     |-> [NewFrameEncoder(MorphKey) EXCEPT !.counter = tc[2]],
                 first   |-> tc[2] + 1,
                 room    |-> room,
                 room0   |-> room,
                 after   |-> "",
                 events  |-> <<>>]

\* (variant) the delay after a write is left out
StepSleepSkipped ==
    /\ call.state = "sleep"
    /\ call' = [call EXCEPT !.state = IF call.after = "recurse" THEN "enter" ELSE "done"]
    /\ UNCHANGED <<codecVars, connVars, tsVars, relay, morph, reg, lookup, conc>>

\* WriteFrameWithMorphing is entered with what is left of the payload: the
\* size is sampled and the head chunk, or the padded rest, is written; a
\* failing write ends the call
StepWrite ==
    /\ call.state = "enter"
    /\ \E targetSize \in GetPacketSize(call.config.Profile), pad \in PadBytes :
         LET rest  == Drop(call.payload, call.off)
             split == Len(rest) > targetSize
             chunk == IF split THEN Take(rest, targetSize)
                      ELSE AddPadding(rest, targetSize, pad)
             w     == WriteFrame(call.enc, Frame(call.type, chunk))
         IN  IF call.room = 0
             THEN call' = [call EXCEPT !.state = "failed", !.enc = w.enc]
             ELSE call' = [call EXCEPT
                             !.state = "sleep",
                             !.enc = w.enc,
                             !.room = IF @ = MaxWrites THEN @ ELSE @ - 1,
                             !.after = IF split THEN "recurse" ELSE "return",
                             !.off = IF split THEN @ + targetSize ELSE @,
                             !.events = Append(@, [kind |-> "write", ctr |-> w.ctr,
                                                   type |-> call.type, off |-> call.off,
                                                   payload |-> chunk])]
    /\ UNCHANGED <<codecVars, connVars, tsVars, relay, morph, reg, lookup, conc>>

\* delay := config.Profile.GetDelay(); time.Sleep(delay); then the recursive
\* call for the remainder, or the return
StepSleep ==
    /\ call.state = "sleep"
    /\ \E delay \in GetDelay(call.config.Profile) :
         call' = [call EXCEPT
                    !.state = IF call.after = "recurse" THEN "enter" ELSE "done",
                    !.events = IF delay > 0
                               THEN Append(@, [kind |-> "sleep", ctr |-> 0, type |-> 0,
                                               off |-> 0, payload |-> <<>>])
                               ELSE @]
    /\ UNCHANGED <<codecVars, connVars, tsVars, relay, morph, reg, lookup, conc>>

StepNext ==
    \/ StepWrite
    \/ StepSleep

SpecMorphSteps == StepInit /\ [][StepNext]_vars

\* The address dialled for a fallback entry (SpecDial)

MaxDestLen == 3

\* '8', '0', 'a', ':', '.', '-'
DestAlphabet == {56, 48, 97, 58, 46, 45}

\* every dest of up to MaxDestLen characters of the alphabet
DestStrings == UNION {[1..n -> DestAlphabet] : n \in 0..MaxDestLen}

DialInit ==
    /\ CodecIdle
    /\ ConnIdle
    /\ TsIdle
    /\ RelayIdle
    /\ MorphIdle
    /\ RegIdle
    /\ LookupIdle
    /\ ConcIdle
    /\ \E s \in DestStrings : call = [state |-> "entry", dest |-> s, addr |-> <<>>]

\* handleFallback computes the address for net.Dial
DialCompute ==
    /\ call.state = "entry"
    /\ call' = [call EXCEPT !.state = "dial", !.addr = DialAddress(call.dest)]
    /\ UNCHANGED <<codecVars, connVars, tsVars, relay, morph, reg, lookup, conc>>

DialNext == DialCompute

SpecDial == DialInit /\ [][DialNext]_vars

\* Claims on the frame codec (SpecCodec)
\* ------------------------------------------------------------------------

\* C1: when a fresh encoder and a fresh decoder share the key and the decoder
\* is given the encoder's outputs in order, the i-th Decode succeeds and
\* returns the type and the payload of the i-th encoded frame.
C1_RoundTripInOrder ==
    sync =>
        \A i \in 1..Len(results) :
            /\ results[i].err = ""
            /\ results[i].frame.type = emitted[i].frame.type
            /\ results[i].frame.payload = emitted[i].frame.payload

\* two frames of different payload lengths, one of them empty, were encoded
\* and decoded in order
C1_Witness ==
    /\ sync
    /\ Len(results) = 2
    /\ emitted[1].frame.payload = <<>>
    /\ Len(emitted[2].frame.payload) = MaxPayloadLen
    /\ emitted[2].frame.type = 255
    /\ emitted[1].frame.type = FrameTypeData

C2_SameSessionKey ==
    (/\ ob.key # <<>>
     /\ ib.key # <<>>
     /\ ib.hsData = ob.hsData
     /\ ob.resp = ib.wrote)
    => /\ ob.key = ib.key
       /\ Len(ib.key) = KeySize
       /\ \A i \in 1..Len(ib.sent) :
            Open(ob.key, ib.sent[i].ctr, Drop(ib.sent[i].bytes, 2)).ok
       /\ \A i \in 1..Len(ob.sent) :
            Open(ib.key, ob.sent[i].ctr, Drop(ob.sent[i].bytes, 2)).ok

\* both handshakes arrived whole and each side has sealed frames, the
\* outbound side two of them
C2_Witness ==
    /\ ob.key # <<>>
    /\ ib.key # <<>>
    /\ ib.hsData = ob.hsData
    /\ ob.resp = ib.wrote
    /\ Len(ob.sent) = 2
    /\ Len(ib.sent) = 1
    /\ Len(ib.accepted) = 2

C4_AuthFailureLooksNonReflex ==
    (ib.authFailed /\ backend.dialed)
    => /\ ib.wrote = <<>>
       /\ backend.addr =
            DialAddress(ChooseFallback(fallbacks, Take(c2s, FallbackPeekSize)).Dest)
       /\ IsPrefix(backend.recv, c2s)

\* C5: a connection that does not open with the Reflex magic, whose client
\* has sent all it sends before waiting for the reply, is handed to the
\* fallback back-end when one is configured and reachable: the handler does
\* not end without having dialed it.
C5_NonReflexReachesFallback ==
    (/\ ib.pc = "done"
     /\ client.kind = "raw"
     /\ client.script = <<>>
     /\ c2s # <<>>
     /\ ~IsReflex(c2s)
     /\ ChooseFallback(fallbacks, Take(c2s, FallbackPeekSize)) # NoFallback
     /\ backend.up)
    => backend.dialed

\* C6: the bytes a fallback back-end has received are the bytes the client
\* sent, from the first byte of the connection, in order.
C6_BackendReceivesFromFirstByte ==
    backend.dialed => IsPrefix(backend.recv, c2s)

\* C8: every frame a party's decoder accepted at counter n is the frame the
\* peer's encoder sealed with counter n; no party accepts a frame of its own
\* encoder.
C8_OnlyPeerFrameAccepted ==
    /\ \A i \in 1..Len(ob.accepted) :
         \E j \in 1..Len(ib.sent) : ib.sent[j] = ob.accepted[i]
    /\ \A i \in 1..Len(ib.accepted) :
         \E j \in 1..Len(ob.sent) : ob.sent[j] = ib.accepted[i]

\* ------------------------------------------------------------------------
\* Claims on ValidateTimestamp (SpecTimestamp)
\* ------------------------------------------------------------------------

\* C11: ValidateTimestamp(ts) is true exactly when |now - ts| <= 120 over
\* the mathematical integers (the difference is computed here on five limbs,
\* where it cannot wrap), and every zero or negative ts is rejected.
C11_TimestampWindowExact ==
    tsResult # "none" =>
        LET ext(a) == <<IF IsNeg64(a) THEN 65535 ELSE 0>> \o a
            diff   == SubLimbs(ext(tsNow), ext(tsArg), 0)
            abs    == IF diff[1] >= 32768 THEN SubLimbs(<<0, 0, 0, 0, 0>>, diff, 0)
                      ELSE diff
            within == /\ \A i \in 1..4 : abs[i] = 0
                      /\ abs[5] <= TimestampWindow
        IN  /\ tsResult = (IF within THEN "true" ELSE "false")
            /\ (IsNeg64(tsArg) \/ tsArg = Int64(0)) => tsResult = "false"

\* ------------------------------------------------------------------------
\* Claims on the relay (SpecConn)
\* ------------------------------------------------------------------------

\* C12: once requestDone has handled the first frame, what it wrote to the
\* link for it is exactly the payload after the request header (8 bytes for
\* IPv4, 20 for IPv6, 5 + len for a domain): nothing when no user data
\* follows the header, and never a header byte.
C12_FirstPayloadAfterHeader ==
    (ib.pc \in {"relay", "done"} /\ ib.up \in {"loop", "nil", "err"}) =>
        LET p    == ib.first.payload
            hlen == CASE p[4] = 1 -> 8
                      [] p[4] = 4 -> 20
                      [] OTHER -> 5 + p[5]
            data == Drop(p, hlen)
        IN  ib.firstOut = IF data = <<>> THEN <<>> ELSE <<data>>

C14_EitherEndReturns ==
    /\ (/\ relay.state # "idle"
        /\ ~relay.returned
        /\ (relay.state \in {"nil", "err"} \/ relay.other = "err"))
       => ENABLED RelayReturn
    /\ (relay.state # "idle" /\ relay.returned) => relay.cancelled

\* ------------------------------------------------------------------------
\* Claims on traffic morphing (SpecMorph)
\* ------------------------------------------------------------------------
\* C15: for every DATA payload written with WriteFrameWithMorphing under an
\* enabled profile, the bytes the receiver obtains by decoding the emitted
\* frames in order and concatenating their payloads equal the original
\* payload.
C15_MorphingPreservesBytes ==
    (/\ morph.state = "err"
     /\ morph.err = "EOF"
     /\ morph.stream = <<>>
     /\ morph.config.Enabled)
    => morph.out = morph.payload

\* C16: the frames the inbound handler sends downstream to a user are written
\* with the morphing of the profile the user's policy names (the default
\* profile without a policy): each frame's payload has one of the packet
\* sizes of that profile.
C16_DownstreamFramesMorphed ==
    ib.pc \in {"relay", "done"} =>
      LET uid     == DecodeClientHandshake(Take(c2s, ClientHandshakeSize)).hs.UserID
          profile == GetProfileByName(validator[uid].Policy)
      IN  \A i \in 1..Len(ib.sent) :
             (Len(ib.sent[i].bytes) - 2 - TagSize - 1) \in GetPacketSize(profile)

\* ------------------------------------------------------------------------
\* Claims on the Validator (SpecValidator, SpecValidatorFair)
\* ------------------------------------------------------------------------
\* what the calls logged before position n say Get(id) returns at n: the
\* user of the last Add under id unless a later Remove deleted that entry
ExpectedGet(log, n, id) ==
    LET adds == {i \in 1..(n - 1) : log[i].op = "Add" /\ log[i].arg.id = id}
    IN  IF adds = {} THEN [user |-> NilUser, err |-> "user not found"]
        ELSE LET i == CHOOSE x \in adds : \A y \in adds : y <= x
             IN  IF \E j \in (i + 1)..(n - 1) :
                       log[j].op = "Remove" /\ log[j].removed = id
                 THEN [user |-> NilUser, err |-> "user not found"]
                 ELSE [user |-> log[i].arg, err |-> ""]

\* the id a logged lookup asked for
LookedUp(e) == IF e.op = "Get" THEN e.arg ELSE ParseString(e.arg).id

\* C17: after any sequence of Add, Remove and Get calls, Get(id) returns the
\* user most recently added under that id unless that entry has been removed
\* since, and a not-found error with a nil user when there is no such entry;
\* the map keeps one entry per id.
C17_LastWriteWins ==
    /\ \A n \in 1..Len(reg.log) :
          (\/ reg.log[n].op = "Get"
           \/ (reg.log[n].op = "GetByUUID" /\ ParseString(reg.log[n].arg).ok))
          => [user |-> reg.log[n].user, err |-> reg.log[n].err]
               = ExpectedGet(reg.log, n, LookedUp(reg.log[n]))
    /\ \A id \in {Uid(1), Uid(2)} :
          LET g == Get(reg.users, id)
          IN  [user |-> g.user, err |-> g.err]
                = ExpectedGet(reg.log, Len(reg.log) + 1, id)
    /\ \A id \in DOMAIN reg.users : reg.users[id].id = id

\* an id was added twice, with different users, and then looked up: the
\* lookup returned the second user
C17_Witness ==
    /\ \E i, j, n \in 1..Len(reg.log) :
          /\ i < j /\ j < n
          /\ reg.log[i].op = "Add" /\ reg.log[j].op = "Add"
          /\ reg.log[i].arg.id = reg.log[j].arg.id
          /\ reg.log[i].arg # reg.log[j].arg
          /\ reg.log[n].op = "Get" /\ reg.log[n].arg = reg.log[j].arg.id
          /\ reg.log[n].user = reg.log[j].arg
    /\ \A p \in Procs : reg.pc[p] = "idle"

\* C18: for every user u held by the Validator (emails need not be unique),
\* after Remove(u.email) returns without error, Get(u.id) returns not-found.
C18_RemovedUserNotFound ==
    (/\ reg.log # <<>>
     /\ reg.log[Len(reg.log)].op = "Remove"
     /\ reg.log[Len(reg.log)].err = "")
    => LET e == reg.log[Len(reg.log)]
       IN  \A id \in DOMAIN e.before :
              e.before[id].Email = e.arg
              => Get(reg.users, id).err = "user not found"

\* goroutine p is between the return of Lock/RLock and its unlock
Holds(p) == reg.pc[p] \in {"cs", "unlock"}

\* what a logged call does when the calls run one after another
SeqOutcomes(users, e) ==
    IF e.op = "GetByUUID" /\ ~ParseString(e.arg).ok
    THEN {[users |-> users, user |-> NilUser, err |-> "invalid UUID", removed |-> <<>>]}
    ELSE BodyOutcomes(users, [op |-> e.op, arg |-> e.arg])

\* the logged calls rem can run one after another from the map users, each
\* returning what it returned, and leave the map final
RECURSIVE Sequential(_, _, _, _)
Sequential(log, users, rem, final) ==
    IF rem = {} THEN users = final
    ELSE \E n \in rem :
            \E o \in SeqOutcomes(users, log[n]) :
               /\ o.user = log[n].user
               /\ o.err = log[n].err
               /\ Sequential(log, o.users, rem \ {n}, final)

C19_Exclusive ==
    \A p, q \in Procs :
       (p # q /\ Holds(p) /\ Holds(q))
       => (~IsWriter(reg.call[p]) /\ ~IsWriter(reg.call[q]))

C19_Linearizable ==
    (\A p \in Procs : reg.pc[p] = "idle")
    => Sequential(reg.log, reg.init, {n \in 1..Len(reg.log) : reg.log[n].p # 0},
                  reg.users)

\* C19: under any interleaving of concurrent Add, Remove, Get and GetByUUID
\* calls, no Add or Remove is in its critical section together with any
\* other Add, Remove or Get (Gets may overlap), every call eventually
\* returns, and the results of the calls are those of some sequential order.
C19_ConcurrentCalls ==
    /\ [](C19_Exclusive /\ C19_Linearizable)
    /\ \A p \in Procs : (reg.pc[p] # "idle") ~> (reg.pc[p] = "idle")

\* two lookups hold the read lock together while an Add or Remove waits
C19_Witness ==
    \E p, q, w \in Procs :
       /\ p # q /\ p # w /\ q # w
       /\ Holds(p) /\ Holds(q)
       /\ reg.pc[w] = "entry" /\ IsWriter(reg.call[w])

\* ------------------------------------------------------------------------
\* Claims on the fallback lookup (SpecLookup)
\* ------------------------------------------------------------------------
\* the eight keys of a request in the order of preference
KeyOrder(n, a, p) ==
    <<<<n, a, p>>, <<n, a, <<>>>>, <<n, "", p>>, <<n, "", <<>>>>,
      <<<<>>, a, p>>, <<<<>>, a, <<>>>>, <<<<>>, "", p>>, <<<<>>, "", <<>>>>>>

\* the positions of KeyOrder that some entry of the configuration has
ConfiguredAt(config, keys) ==
    {i \in 1..Len(keys) :
       \E j \in 1..Len(config) :
          <<config[j].Name, config[j].Alpn, config[j].Path>> = keys[i]}

\* C20: for every fallback table built by New and every request (N, A, P),
\* findFallback returns the first configured entry in the order (N,A,P),
\* (N,A,""), (N,"",P), (N,"",""), ("",A,P), ("",A,""), ("","",P), ("","",""),
\* and no entry exactly when none of these eight keys is configured.
C20_FallbackKeyOrder ==
    lookup.state = "done" =>
      LET keys == KeyOrder(lookup.name, lookup.alpn, lookup.path)
          hits == ConfiguredAt(lookup.config, keys)
      IN  IF hits = {} THEN lookup.result = NoFallback
          ELSE LET first == CHOOSE i \in hits : \A k \in hits : i <= k
               IN  /\ lookup.result # NoFallback
                   /\ <<lookup.result.Name, lookup.result.Alpn, lookup.result.Path>>
                        = keys[first]
                   /\ \E j \in 1..Len(lookup.config) : lookup.result = lookup.config[j]

\* entries exist under the requested name, none of them for the request's
\* ALPN or path, and the entry returned is one under the default name
C20_Witness ==
    /\ lookup.state = "done"
    /\ lookup.name # <<>>
    /\ \E j \in 1..Len(lookup.config) : lookup.config[j].Name = lookup.name
    /\ lookup.result # NoFallback
    /\ lookup.result.Name = <<>>
    /\ lookup.result.Alpn = lookup.alpn
    /\ lookup.alpn # ""

\* ------------------------------------------------------------------------
\* Claims on the length field (SpecLength)
\* ------------------------------------------------------------------------
\* C21: for every frame passed to Encode or EncodeToWriter the 2-byte
\* big-endian length field equals the number of ciphertext bytes that follow
\* it, and that number is 1 + len(payload) + 16.
C21_LengthFieldIsCiphertextLength ==
    call.state = "encoded" =>
      /\ call.follows = 1 + call.size + TagSize
      /\ call.header[1] * ByteMod + call.header[2] = call.follows

\* ------------------------------------------------------------------------
\* Claims on the request header (SpecHeader)
\* ------------------------------------------------------------------------
\* C22: for every request with command TCP or UDP, any 16-bit port and an
\* IPv4, IPv6 or domain address of 1 to 255 bytes, parseRequestHeader of the
\* output of encodeRequestHeader succeeds and returns the same command, port
\* and address.
C22_HeaderRoundTrip ==
    (call.state = "parsed" /\ call.request # NoRequest)
    => /\ call.parsed.err = ""
       /\ call.parsed.Command = call.request.Command
       /\ call.parsed.Port = call.request.Port
       /\ call.parsed.Address = call.request.Address

\* a payload that starts with a complete header: four bytes, an address type
\* 1, 3 or 4 and an address as long as the type requires
WellFormedHeader(p) ==
    /\ Len(p) >= 4
    /\ CASE p[4] = 1 -> Len(p) >= 8
         [] p[4] = 4 -> Len(p) >= 20
         [] p[4] = 3 -> Len(p) >= 5 /\ Len(p) >= 5 + p[5]
         [] OTHER -> FALSE

\* C23: parseRequestHeader returns an error, and no request, for every
\* payload that is not a complete well-formed header: fewer than 4 bytes, an
\* address type other than 1, 3 or 4, or an address shorter than its type
\* requires.
C23_MalformedHeaderRejected ==
    (call.state = "parsed" /\ ~WellFormedHeader(call.payload))
    => /\ call.parsed.err # ""
       /\ call.parsed.Address = NoAddress
       /\ call.parsed.Command = 0

\* the timestamp of the handshake the server received lies outside the
\* window of TimestampWindow seconds around the clock
C24_TimestampOutside ==
    /\ Len(c2s) >= ClientHandshakeSize
    /\ LET ts == DecodeClientHandshake(Take(c2s, ClientHandshakeSize)).hs.Timestamp
       IN  ~\E t \in (Now - TimestampWindow)..(Now + TimestampWindow) : ts = Int64(t)

\* C24: when the opening bytes carry the Reflex magic but the handshake
\* cannot be read or decoded, or its timestamp is outside the window, the
\* inbound handler returns an error without invoking the fallback, without
\* looking up the user and without writing anything to the client, whether
\* or not the user id is known.
C24_BadHandshakeIsAnError ==
    (/\ IsReflex(c2s)
     /\ Len(c2s) < ClientHandshakeSize \/ C24_TimestampOutside)
    => /\ s2c = <<>>
       /\ ~backend.dialed
       /\ ~ib.authFailed
       /\ ib.pc \notin {"fallback", "splice", "firstFrame", "relay"}
       /\ \A i \in 1..Len(events) : events[i] \notin {"tsValid", "userFound"}
       /\ ib.pc = "done" => ib.err # ""

\* C25: the encoded client handshake is exactly 76 bytes, starts with
\* 0x52 0x46 0x58 0x4C and decodes to the public key, user id, timestamp
\* (negative ones included) and nonce that were encoded; the encoded server
\* handshake is exactly 40 bytes and decodes to its public key and timestamp;
\* neither depends on what the pooled buffer held before.
C25_HandshakeRoundTrip ==
    (call.state \in {"wire", "decoded"} /\ call.pool # <<>>) =>
      /\ call.side = "client" =>
           /\ Len(call.data) = 76
           /\ SubSeq(call.data, 1, 4) = <<82, 70, 88, 76>>
           /\ \A b \in ClientPoolBuffers :
                EncodeClientHandshakePooled(b, call.hs) = call.data
      /\ call.side = "server" =>
           /\ Len(call.data) = 40
           /\ \A b \in ServerPoolBuffers :
                EncodeServerHandshakePooled(b, call.hs) = call.data
      /\ call.state = "decoded" => (call.out.err = "" /\ call.out.hs = call.hs)

\* a handshake with a negative timestamp, encoded into a used buffer, was decoded
C25_Witness ==
    /\ call.state = "decoded"
    /\ call.side = "client"
    /\ call.pool = Rep(255, ClientHandshakeSize)
    /\ call.hs.Timestamp = MinInt64
    /\ call.out.hs.Timestamp = MinInt64

\* C26: DecodeClientHandshake returns the too-short error for every input
\* shorter than 76 bytes, with or without the magic, and the invalid-magic
\* error for every input of at least 76 bytes whose first four bytes are not
\* the magic; DecodeServerHandshake returns an error for every input shorter
\* than 40 bytes; no handshake is returned in these cases.
C26_DecodeErrors ==
    call.state = "decoded" =>
      /\ (call.side = "client" /\ Len(call.data) < 76) =>
           (call.out.err = "handshake packet too short" /\ call.out.hs = NilClientHandshake)
      /\ (call.side = "client" /\ Len(call.data) >= 76
                               /\ SubSeq(call.data, 1, 4) # <<82, 70, 88, 76>>) =>
           (call.out.err = "invalid magic number" /\ call.out.hs = NilClientHandshake)
      /\ (call.side = "server" /\ Len(call.data) < 40) =>
           (call.out.err # "" /\ call.out.hs = NilServerHandshake)

\* a 75-byte input that begins with the magic was refused as too short
C26_Witness ==
    /\ call.state = "decoded"
    /\ call.side = "client"
    /\ Len(call.data) = 75
    /\ SubSeq(call.data, 1, 4) = ReflexMagic
    /\ call.out.err = "handshake packet too short"

\* C27: for every byte string given to Decode and every byte stream given to
\* ReadFrame, every value 0..65535 of the length header included, the call
\* returns a frame or an error and never faults; a length header that
\* announces nothing or more than is there yields an error.
C27_DecodeNeverFaults ==
    call.state = "returned" =>
      /\ call.err # "panic"
      /\ call.err = "" <=> call.frame # NoFrame
      /\ (Len(call.data) >= 2 /\ (Uint16BE(call.data) = 0
            \/ Uint16BE(call.data) > Len(call.data) + call.pad - 2)) => call.err # ""

\* C28: the outbound handler derives session keys only from a complete
\* 40-byte server handshake received on this connection: when the peer
\* delivers fewer than 40 bytes, in its first read or before closing, the
\* handler returns an error, derives no key and sends no request frame.
C28_KeysOnlyFromFullResponse ==
    (ob.key # <<>> \/ ob.sent # <<>>) =>
      /\ Len(s2c) >= ServerHandshakeSize
      /\ ob.resp = Take(s2c, ServerHandshakeSize)

\* C29: the server completes a handshake at most once for a given client
\* handshake record: a 76-byte record it has already accepted is rejected
\* when presented again on a new connection, also while its timestamp is
\* still inside the window.
C29_RecordAcceptedOnce ==
    call.state = "serving" =>
      \A i, j \in 1..Len(call.accepted) :
          i # j => call.accepted[i] # call.accepted[j]

\* goroutine p has sealed its frame / has opened one
HasSealed(p) == conc.pc[p] \in {"decLoad", "decStore", "decNonce", "open", "done"}

HasOpened(p) == conc.pc[p] = "done"

\* C30: when several goroutines call Encode on one encoder and Decode on one
\* decoder concurrently, every call seals or opens with its own counter
\* value: no two emitted frames are sealed under the same nonce, and each
\* counter ends advanced by exactly the number of calls made on it.
C30_DistinctCounters ==
    conc.state = "run" =>
      /\ \A p, q \in Goroutines :
           (p # q /\ HasSealed(p) /\ HasSealed(q)) => conc.sealed[p] # conc.sealed[q]
      /\ \A p, q \in Goroutines :
           (p # q /\ HasOpened(p) /\ HasOpened(q)) => conc.opened[p] # conc.opened[q]
      /\ (\A p \in Goroutines : HasOpened(p)) =>
           /\ conc.enc.counter = MaxGoroutines
           /\ conc.dec.counter = MaxGoroutines

\* the frames sealed so far in one session, with the key they were sealed under
SessionSealed ==
    {[key |-> ob.key, ctr |-> ob.sent[i].ctr, bytes |-> ob.sent[i].bytes] :
        i \in 1..Len(ob.sent)}
    \cup {[key |-> ib.key, ctr |-> ib.sent[i].ctr, bytes |-> ib.sent[i].bytes] :
             i \in 1..Len(ib.sent)}

\* C31: within one session no (key, nonce) pair is used to seal two
\* different plaintexts, the frames of both directions counted together.
C31_NoNonceReuseInSession ==
    \A f, g \in SessionSealed :
        (f.key = g.key /\ f.ctr = g.ctr) => f.bytes = g.bytes

\* the byte string passes the two length checks of Decode as the code
\* computes them, 2+length in 16 bits
PassesLengthChecks(n, h) == n >= 2 /\ n >= (2 + h) % Uint16Mod

\* C32: a decoder's counter advances by exactly one on every Decode call
\* that passes the two length checks, whether or not authentication then
\* succeeds, and is unchanged by calls that fail with 'frame too short' or
\* 'incomplete frame' and by ReadFrame calls that fail on a read error or a
\* zero length; after one frame has failed authentication every later frame
\* of the honest encoder fails on that decoder too.
C32_CounterAdvancesPerCall ==
    LET n == Len(call.data) + call.pad
        h == IF Len(call.data) >= 2 THEN Uint16BE(call.data) ELSE 0
    IN  /\ (call.state = "returned" /\ call.fn = "Decode") =>
             call.counter = IF PassesLengthChecks(n, h) THEN 1 ELSE 0
        /\ (call.state = "returned" /\ call.fn = "ReadFrame") =>
             call.counter = IF n >= 2 /\ h # 0 /\ n >= 2 + h THEN 1 ELSE 0
        /\ call.state = "later" =>
             (call.later.counter = call.counter + 1 /\ call.later.err # "")

\* the inbound handler has written bytes of its own to the client
ServerWrote == ib.wrote # <<>> \/ ib.sent # <<>>

\* C33: the server writes nothing to the client connection before the
\* client handshake has decoded, passed timestamp validation and named a
\* user present in the validator: the first bytes the server itself writes
\* are the 40-byte server handshake, and on every failing handshake path it
\* writes none (what a fallback connection carries is the back-end's reply).
C33_NothingWrittenBeforeAuth ==
    LET d == DecodeClientHandshake(Take(c2s, ClientHandshakeSize))
    IN  /\ ServerWrote =>
             /\ Len(c2s) >= ClientHandshakeSize
             /\ d.err = ""
             /\ ValidateTimestamp(d.hs.Timestamp, Int64(Now))
             /\ d.hs.UserID \in DOMAIN validator
             /\ Len(ib.wrote) = ServerHandshakeSize
             /\ IsPrefix(ib.wrote, s2c)
        /\ ~ServerWrote => (s2c = <<>> \/ backend.replied)
        /\ (ib.authFailed \/ backend.dialed) => ~ServerWrote
        /\ ib.err \in {"failed to peek connection", "failed to read handshake",
                       "invalid handshake", "invalid timestamp"} => s2c = <<>>

\* the server handshake and a frame were written after a valid handshake
C33_Witness ==
    /\ Len(ib.wrote) = ServerHandshakeSize
    /\ ib.sent # <<>>
    /\ IsPrefix(ib.wrote, s2c)
    /\ Len(s2c) > ServerHandshakeSize

\* a handshake of an unknown user ended in the fallback with nothing written
C33_WitnessFailing ==
    /\ ib.authFailed
    /\ backend.dialed
    /\ ~backend.replied
    /\ s2c = <<>>

\* C34: the handshake read deadline is set before any byte is read from the
\* connection, is in force for every read up to and including the 76-byte
\* client handshake, and is cleared after the server handshake has been
\* written and before the first frame is read.
C34_DeadlineCoversHandshake ==
    /\ ib.pc \in {"peek", "handshake"} => ib.deadline
    /\ (ib.rpos > 0 \/ events # <<>>) => (ib.deadline \/ Len(ib.wrote) = ServerHandshakeSize)
    /\ (~ib.deadline /\ ib.pc # "accept") =>
          /\ Len(ib.wrote) = ServerHandshakeSize
          /\ IsPrefix(ib.wrote, s2c)
          /\ ib.rpos >= ClientHandshakeSize
    /\ (ib.pc \in {"firstFrame", "relay"} \/ ib.first # NoFrame \/ ib.accepted # <<>>) =>
          ~ib.deadline

\* the first frame was read after the deadline had been cleared
C34_Witness ==
    /\ ib.pc = "relay"
    /\ ~ib.deadline
    /\ ib.first # NoFrame
    /\ Len(ib.wrote) = ServerHandshakeSize

\* the sizes listed in the profile of the call
ProfileSizes ==
    {morph.config.Profile.PacketSizes[i] : i \in DOMAIN morph.config.Profile.PacketSizes}

\* the call of WriteFrameWithMorphing has returned, under an enabled profile
Morphed == morph.state # "write" /\ morph.config.Enabled

\* C36: every frame emitted under an enabled profile has a payload length
\* equal to one of the sizes listed in that profile, hence at most
\* MaxFramePayloadSize for the three predefined profiles.
C36_FrameSizesFromProfile ==
    Morphed =>
      \A i \in 1..Len(morph.payloads) :
          /\ Len(morph.payloads[i]) \in ProfileSizes
          /\ Len(morph.payloads[i]) <= MaxFramePayloadSize

\* a payload was split into several frames, the last one padded
C36_Witness ==
    /\ Morphed
    /\ Len(morph.payloads) >= 3
    /\ Len(morph.payload) = MaxMorphLen

\* the concatenation of the first n payloads written
RECURSIVE WrittenUpTo(_)
WrittenUpTo(n) == IF n = 0 THEN <<>> ELSE WrittenUpTo(n - 1) \o morph.payloads[n]

\* C37: the concatenation, in emission order, of the payloads of the frames
\* one call emits begins with the original payload; extra bytes are padding
\* at the end of the last frame only, no earlier frame contains padding.
C37_PaddingOnlyAtTheEnd ==
    Morphed =>
      /\ Len(morph.payloads) >= 1
      /\ IsPrefix(morph.payload, WrittenUpTo(Len(morph.payloads)))
      /\ IsPrefix(WrittenUpTo(Len(morph.payloads) - 1), morph.payload)

\* two frames carried the payload and the second one ends in padding
C37_Witness ==
    /\ Morphed
    /\ Len(morph.payloads) = 2
    /\ Len(morph.payload) = 201
    /\ Len(WrittenUpTo(2)) > 201

\* the smallest size of the profile of the call
MinProfileSize ==
    CHOOSE n \in ProfileSizes : \A m \in ProfileSizes : n <= m

\* ceil(a / b)
CeilDiv(a, b) == (a + b - 1) \div b

\* C38: for each of the three predefined profiles the call terminates: it
\* emits exactly one frame for an empty payload and at most
\* ceil(len(payload) / s_min) frames otherwise, s_min being the smallest
\* size of the profile; every frame but the last removes a positive number
\* of bytes from what is left.
C38_FrameCountBounded ==
    Morphed =>
      /\ morph.payload = <<>> => Len(morph.payloads) = 1
      /\ morph.payload # <<>> =>
            /\ Len(morph.payloads) >= 1
            /\ Len(morph.payloads) <= CeilDiv(Len(morph.payload), MinProfileSize)
      /\ \A i \in 1..(Len(morph.payloads) - 1) : Len(morph.payloads[i]) > 0

\* the largest payload went out in as many frames as the bound allows
C38_Witness ==
    /\ Morphed
    /\ Len(morph.payload) = MaxMorphLen
    /\ Len(morph.payloads) = CeilDiv(MaxMorphLen, MinProfileSize)

\* the call of SpecMorphSteps is under way or over
Stepping == call.state \in {"enter", "sleep", "done", "failed"}

\* the writes made so far are the odd events, each followed by its delay
StepWrites == {i \in 1..Len(call.events) : call.events[i].kind = "write"}

\* C35: WriteFrameWithMorphing never reorders data: the chunks of a payload
\* are written as frames in increasing offset order with consecutive counter
\* values and the original frame type; the frame for the remainder is
\* written only after the head frame's write has returned and the sampled
\* delay has elapsed; after a failed write no later chunk is written.
C35_ChunksInOrder ==
    Stepping =>
      /\ \A i \in 1..Len(call.events) :
           (call.events[i].kind = "write") <=> (i % 2 = 1)
      /\ \A i \in StepWrites :
           LET ev == call.events[i]
               k  == (i + 1) \div 2
           IN  /\ ev.type = call.type
               /\ ev.ctr = call.first + k - 1
               /\ ev.off = IF k = 1 THEN 0
                           ELSE call.events[i - 2].off + Len(call.events[i - 2].payload)
               /\ IsPrefix(Take(Drop(call.payload, ev.off), Len(ev.payload)), ev.payload)
               /\ (i + 2 \in StepWrites) =>
                     ev.payload = SubSeq(call.payload, ev.off + 1, ev.off + Len(ev.payload))
      /\ call.state = "enter" => (call.events = <<>> \/ call.events[Len(call.events)].kind = "sleep")
      /\ call.state = "failed" => Cardinality(StepWrites) = call.room0
      /\ Cardinality(StepWrites) <= call.room0

\* three chunks were written in order, with the delays between them
C35_Witness ==
    /\ Stepping
    /\ call.state = "done"
    /\ Cardinality(StepWrites) >= 3
    /\ call.type = FrameTypeTiming

\* the second write failed and the call ended there
C35_WitnessFailed ==
    /\ Stepping
    /\ call.state = "failed"
    /\ call.room0 = 1
    /\ Len(call.payload) = MaxMorphLen

\* C39: the address dialled for a fallback entry is "127.0.0.1:<dest>" when
\* dest is a bare numeric string and is dest unchanged in every other case
\* (a host:port string as well as a non-numeric string without a colon).
C39_DialAddress ==
    call.state = "dial" =>
      call.addr = IF call.dest # <<>> /\ IsDigits(call.dest)
                  THEN <<49, 50, 55, 46, 48, 46, 48, 46, 49, 58>> \o call.dest
                  ELSE call.dest

\* the map as the i-th logged call left it: the map changes only in the
\* body of a call, which is logged in the same step
MapAfter(i) == IF i < Len(reg.log) THEN reg.log[i + 1].before ELSE reg.users

\* C40: a Remove(email) that succeeds deletes exactly one entry whose email
\* equals the argument and leaves every other entry unchanged; a Remove
\* that returns not-found, and every Get and GetByUUID call (also with an
\* unparsable UUID string), leave the map unchanged.
C40_RemoveDeletesOneEntry ==
    reg.state = "run" =>
      \A i \in 1..Len(reg.log) :
         LET e == reg.log[i]
         IN  /\ (e.op = "Remove" /\ e.err = "") =>
                   /\ e.removed \in DOMAIN e.before
                   /\ e.before[e.removed].Email = e.arg
                   /\ DOMAIN MapAfter(i) = DOMAIN e.before \ {e.removed}
                   /\ \A x \in DOMAIN MapAfter(i) : MapAfter(i)[x] = e.before[x]
             /\ (e.op = "Remove" /\ e.err # "") =>
                   (e.err = "user not found" /\ MapAfter(i) = e.before)
             /\ e.op \in {"Get", "GetByUUID"} => MapAfter(i) = e.before

\* a Remove succeeded on a map with two entries of that email and one of
\* them is still there; a GetByUUID with an unparsable string was made too
C40_Witness ==
    /\ reg.state = "run"
    /\ \E i \in 1..Len(reg.log) :
          /\ reg.log[i].op = "Remove"
          /\ reg.log[i].err = ""
          /\ Cardinality({x \in DOMAIN reg.log[i].before :
                             reg.log[i].before[x].Email = reg.log[i].arg}) = 2
          /\ Cardinality(DOMAIN MapAfter(i)) = 1
    /\ \E i \in 1..Len(reg.log) : reg.log[i].err = "invalid UUID"

====
